---- MODULE Spec2Model ----
(***************************************************************************)
(* A model of the gothrottle scheduler: the Limiter (limiter.go), its      *)
(* priority queue (job.go), the in-memory backend (local_store.go) and    *)
(* the remote backend (redis_store.go).                                    *)
(*                                                                         *)
(* Goroutines are modelled as processes with a program counter each:       *)
(*   - one submitter per job slot (a call of Schedule/ScheduleWithOptions),*)
(*   - the scheduler goroutine (the dispatcher),                           *)
(*   - one worker per granted job (executeJob),                            *)
(*   - the callers of Stop.                                                *)
(* A critical section of Limiter.mu or LocalStore.mu holds no blocking     *)
(* call, so each one is a single atomic step; SpecMutex checks that by     *)
(* modelling Limiter.mu itself, one step per Lock, RLock and unlock.       *)
(***************************************************************************)
EXTENDS Integers, Sequences, FiniteSets, TLC

(***************************************************************************)
(* Bounds of the model.                                                    *)
(***************************************************************************)
NJobs == 2          \* calls of Schedule/ScheduleWithOptions
NStoppers == 2      \* calls of Stop
MaxTime == 3        \* the clock runs over 1..MaxTime

NItems == 4         \* jobs of the dispatch-order model
Jobs == 1..NJobs
Items == 1..NItems
NCallers == 2       \* goroutines calling one LocalStore at the same time
Callers == 1..NCallers
Stoppers == 1..NStoppers

\* Inputs the callers choose from.
Priorities == {1, 5}
QueuePriorities == {1, 10, 5}
Weights == {-1, 0, 1, 2}
MaxConcurrentChoices == {0, 1, 2}
MinTimeChoices == {0, 2}
RedisMinTimeChoices == {0, 2, 3}
Impls == {"local", "redis"}
IDChoices == {"", "a"}
IDs == {"default", "a"}

\* Schedule(task) is ScheduleWithOptions(task, 5, 1).
DefaultPriority == 5
DefaultWeight == 1

\* Capacity of Job.resultChan and Job.errorChan.
ChanCap == 1

\* time.Time{}: the zero time, for which IsZero() holds. time.Now() is never zero.
ZeroTime == 0

\* PEXPIRE key 30000, in ticks of the clock (a tick is fifteen seconds).
KeyTTL == 2

\* time.Now().UnixMilli() at the clock's origin: the epoch lies further back
\* than any MinTime.
UnixBase == 10

(***************************************************************************)
(* local_store.go                                                          *)
(***************************************************************************)
\* ls.state[id] for an id with no entry.
NoLocalState == [exists |-> FALSE, running |-> 0, lastStart |-> ZeroTime]

\* &LocalState{running: 0, lastStart: time.Time{}}
NewLocalState == [exists |-> TRUE, running |-> 0, lastStart |-> ZeroTime]

\* make(map[string]*LocalState), and the nil map after Disconnect.
EmptyLocalMap == [id \in IDs |-> NoLocalState]

ConcurrencyDenied_NoCheck(s, weight, o) == FALSE

ConcurrencyDenied_IgnoresWeight(s, weight, o) ==
    o.MaxConcurrent > 0 /\ s.running >= o.MaxConcurrent

\* opts.MaxConcurrent > 0 && state.running+weight > opts.MaxConcurrent
ConcurrencyDenied(s, weight, o) ==
    o.MaxConcurrent > 0 /\ s.running + weight > o.MaxConcurrent

SpacingDenied_NoCheck(s, o, t) == FALSE

SpacingDenied_ZeroCounts(s, o, t) == o.MinTime > 0 /\ t - s.lastStart < o.MinTime

\* opts.MinTime > 0 && !state.lastStart.IsZero() && now.Sub(state.lastStart) < opts.MinTime
SpacingDenied(s, o, t) ==
    o.MinTime > 0 /\ s.lastStart # ZeroTime /\ t - s.lastStart < o.MinTime

SpacingWait_Elapsed(minTime, elapsed) == elapsed

\* waitTime = opts.MinTime - elapsed
SpacingWait(minTime, elapsed) == minTime - elapsed

StoreClosed_Never(cl) == FALSE

\* if s.closed { return false, 0, ErrStoreClosed }
StoreClosed(cl) == cl

\* LocalStore.Request at clock value t, on the map st of a store whose closed
\* flag is cl: the three results and the map it leaves.
LocalRequest(st, cl, id, weight, o, t) ==
    IF StoreClosed(cl)
    THEN [canRun |-> FALSE, waitTime |-> 0, err |-> "ErrStoreClosed", state |-> st]
    ELSE LET s0 == IF st[id].exists THEN st[id] ELSE NewLocalState
             st1 == [st EXCEPT ![id] = s0]
         IN  IF ConcurrencyDenied(s0, weight, o)
             THEN [canRun |-> FALSE, waitTime |-> 0, err |-> "nil", state |-> st1]
             ELSE IF SpacingDenied(s0, o, t)
             THEN [canRun |-> FALSE, waitTime |-> SpacingWait(o.MinTime, t - s0.lastStart),
                   err |-> "nil", state |-> st1]
             ELSE [canRun |-> TRUE, waitTime |-> 0, err |-> "nil",
                   state |-> [st EXCEPT ![id] =
                       [exists |-> TRUE, running |-> s0.running + weight, lastStart |-> t]]]

ClampAtZero_Never(r) == r

\* if state.running < 0 { state.running = 0 }
ClampAtZero(r) == IF r < 0 THEN 0 ELSE r

\* LocalStore.RegisterDone: the error and the map it leaves.
LocalRegisterDone(st, cl, id, weight) ==
    IF cl
    THEN [err |-> "ErrStoreClosed", state |-> st]
    ELSE IF ~st[id].exists
    THEN [err |-> "nil", state |-> st]
    ELSE [err |-> "nil",
          state |-> [st EXCEPT ![id].running = ClampAtZero(st[id].running - weight)]]

(***************************************************************************)
(* redis_store.go. The server keeps one hash per key gothrottle:<ID>; its  *)
(* fields running and last_start read as 0 when absent, and expireAt is    *)
(* the clock value at which the key disappears (0: no expiry is set).      *)
(***************************************************************************)
\* A key that does not exist: HGETALL returns no fields.
NoRedisKey == [exists |-> FALSE, running |-> 0, last_start |-> 0, expireAt |-> 0]

RedisVisible_NoExpiry(k, t) == k

\* The key as the server shows it at clock value t: gone once its expiry passed.
RedisVisible(k, t) ==
    IF k.exists /\ k.expireAt # 0 /\ t >= k.expireAt THEN NoRedisKey ELSE k

\* time.Now().UnixMilli()
UnixMilli(t) == UnixBase + t

OverLimit_Never(running, weight, max_concurrent) == FALSE

\* max_concurrent > 0 and running + weight > max_concurrent
OverLimit(running, weight, max_concurrent) ==
    max_concurrent > 0 /\ running + weight > max_concurrent

DeniedKey_Refreshed(k, t) == [k EXCEPT !.exists = TRUE, !.expireAt = t + KeyTTL]

\* The key a script run leaves when it returns {0, ...}: both returns come
\* before the first write (HINCRBY, HSET, PEXPIRE).
DeniedKey(k, t) == k

\* The Lua script on key k at server clock t: the pair it returns and the key
\* it leaves.
redisScript(k, max_concurrent, min_time_ms, weight, current_time_ms, t) ==
    LET elapsed == current_time_ms - k.last_start
    IN  IF OverLimit(k.running, weight, max_concurrent)
        THEN [ret |-> <<0, -1>>, key |-> DeniedKey(k, t)]
        ELSE IF min_time_ms > 0 /\ elapsed < min_time_ms
        THEN [ret |-> <<0, min_time_ms - elapsed>>, key |-> DeniedKey(k, t)]
        ELSE [ret |-> <<1, 0>>,
              key |-> [exists |-> TRUE, running |-> k.running + weight,
                       last_start |-> current_time_ms, expireAt |-> t + KeyTTL]]

ClientIsNil_Never(client) == FALSE

\* rs.client == nil
ClientIsNil(client) == client = "nil"

\* rs.client.EvalSha(rs.ctx, rs.scriptSHA, ...): the server runs the script
\* cached under the SHA, and answers NOSCRIPT when its cache does not hold it.
EvalSha(cached, k, max_concurrent, min_time_ms, weight, current_time_ms, t) ==
    IF cached
    THEN [err |-> "nil",
          r |-> redisScript(k, max_concurrent, min_time_ms, weight, current_time_ms, t)]
    ELSE [err |-> "NOSCRIPT", r |-> [ret |-> <<0, 0>>, key |-> k]]

\* RedisStore.Request: the three results and the keys it leaves. cached tells
\* whether the server's script cache holds the admission script.
RedisRequest(keys, cached, client, id, weight, o, t) ==
    IF ClientIsNil(client)
    THEN [canRun |-> FALSE, waitTime |-> 0, err |-> "ErrStoreClosed", keys |-> keys]
    ELSE LET e == EvalSha(cached, RedisVisible(keys[id], t), o.MaxConcurrent, o.MinTime,
                          weight, UnixMilli(t), t)
             r == e.r
         IN  IF e.err # "nil"
             THEN [canRun |-> FALSE, waitTime |-> 0, err |-> "redis eval error",
                   keys |-> keys]
             ELSE [canRun |-> r.ret[1] = 1,
                   waitTime |-> IF r.ret[2] > 0 THEN r.ret[2] ELSE 0,
                   err |-> "nil",
                   keys |-> [keys EXCEPT ![id] = r.key]]

HIncrByRunning_Dropped(k, delta) == k

\* HINCRBY key running -weight: creates the key and the field when absent and
\* leaves the expiry as it is.
HIncrByRunning(k, delta) == [k EXCEPT !.exists = TRUE, !.running = k.running + delta]

\* RedisStore.RegisterDone: the error and the keys it leaves.
RedisRegisterDone(keys, client, id, weight, t) ==
    IF ClientIsNil(client)
    THEN [err |-> "ErrStoreClosed", keys |-> keys]
    ELSE [err |-> "nil",
          keys |-> [keys EXCEPT ![id] = HIncrByRunning(RedisVisible(keys[id], t), -weight)]]

(***************************************************************************)
(* job.go: PriorityQueue over container/heap. A queue is a sequence of     *)
(* job ids laid out as the heap's slice (index i of the slice is i+1 here);*)
(* prio maps a job id to its Priority.                                     *)
(***************************************************************************)
Less_LowestFirst(prio, q, i, j) == prio[q[i]] < prio[q[j]]

\* PriorityQueue.Less: higher Priority values first.
Less(prio, q, i, j) == prio[q[i]] > prio[q[j]]

\* PriorityQueue.Swap
Swap(q, i, j) == [q EXCEPT ![i] = q[j], ![j] = q[i]]

RECURSIVE HeapUp(_, _, _)
\* container/heap up(h, j): parent of slice index j is (j-1)/2.
HeapUp(prio, q, j) ==
    LET i == j \div 2
    IN  IF j = 1 \/ ~Less(prio, q, j, i)
        THEN q
        ELSE HeapUp(prio, Swap(q, i, j), i)

RECURSIVE HeapDown(_, _, _, _)
\* container/heap down(h, i, n) over the first n elements.
HeapDown(prio, q, i, n) ==
    LET j1 == 2 * i
        j2 == j1 + 1
    IN  IF j1 > n
        THEN q
        ELSE LET j == IF j2 <= n /\ Less(prio, q, j2, j1) THEN j2 ELSE j1
             IN  IF ~Less(prio, q, j, i)
                 THEN q
                 ELSE HeapDown(prio, Swap(q, i, j), j, n)

PushJob_Dropped(prio, q, job) == q

\* PushJob: heap.Push appends and sifts up.
PushJob(prio, q, job) == HeapUp(prio, Append(q, job), Len(q) + 1)

\* The job PopJob returns: heap.Pop swaps the root with the last element,
\* sifts the new root down over the first n-1 and removes the last.
PopJobResult(prio, q) == q[1]

\* The queue PopJob leaves.
PopJobRest(prio, q) ==
    LET n == Len(q) - 1
        swapped == Swap(q, 1, n + 1)
    IN  SubSeq(HeapDown(prio, swapped, 1, n), 1, n)

\* IsEmpty
IsEmpty(q) == Len(q) = 0

(***************************************************************************)
(* State.                                                                  *)
(***************************************************************************)
VARIABLES
    opts,        \* the Options value handed to NewLimiter
    lim,         \* what NewLimiter returned: "new" (not called yet), "ok", "ErrMissingID"
    lopts,       \* Limiter.opts
    datastore,   \* Limiter.datastore: "none", "own" (NewLocalStore()) or "supplied"
    running,     \* Limiter.running
    stopCloses,  \* how many times close(l.stopCh) ran; the channel is closed when > 0
    wg,          \* Limiter.wg
    queue,       \* Limiter.queue
    sched,       \* the scheduler goroutine: [pc, job, wait, wake]
    schedulers,  \* how many scheduler goroutines were started
    sub,         \* per job slot, the submitter: "idle", "waiting", "returned"
    ret,         \* per job slot, what the call returned
    jPriority,   \* Job.Priority (the call's priority argument)
    jWeight,     \* Job.Weight (the call's weight argument)
    resultChan,  \* Job.resultChan
    errorChan,   \* Job.errorChan
    worker,      \* per job, the executeJob goroutine
    stop,        \* per Stop call: "idle", "wait" (in wg.Wait), "returned"
    lsState,     \* LocalStore.state
    lsClosed,    \* LocalStore.closed
    now,         \* time.Now()
    call,        \* a direct caller of the store: its last call and what it returned
    \* history, read by the properties only
    sentResult,  \* per job, sends made on resultChan
    sentError,   \* per job, sends made on errorChan
    fullSend,    \* a send found its channel full
    disconnects, \* calls of l.datastore.Disconnect() made by Stop
    atStop,      \* the jobs queued when the scheduler took the stop case
    requested,   \* the jobs a Request was issued for
    lastGrant,   \* per ID, the time of the latest Request a direct caller was granted
    lateStop     \* per Stop call: it began after the running flag was cleared

\* The dispatch order of a longer queue (the limiter above with four jobs of
\* weight 1, without channels and without Stop).
VARIABLES
    pq,          \* Limiter.queue
    pqPriority,  \* per item, Job.Priority
    pqPhase,     \* per item: "new", "queued", "popped", "executing", "done"
    pqSched,     \* the scheduler goroutine in processJobs: [pc, job, wait, wake]
    pqGrants,    \* history: the items in the order their Requests were granted
    pqScene      \* history: the items of the first state that held priorities
                 \* 1, 5 and 10 in the queue while the only slot was taken

queueVars == <<pq, pqPriority, pqPhase, pqSched, pqGrants, pqScene>>

\* Goroutines that call one LocalStore at the same time (two limiters on one
\* store): LocalStore.mu and the position of each caller in Request.
VARIABLES
    lsMu,        \* LocalStore.mu: 0, or the caller that holds it
    cPc,         \* per caller: "idle", "locked", "update", "unlock", "holding"
    cLocal       \* per caller: the call's arguments, now, and the named results

callerVars == <<lsMu, cPc, cLocal>>

\* The Datastore a direct caller holds, and the RedisStore with its server.
VARIABLES
    impl,        \* the dynamic type of the Datastore value: "local" or "redis"
    rsClient,    \* RedisStore.client: "open", or "nil" after Disconnect
    rKeys,       \* the server: per ID, the hash under key gothrottle:<ID>
    keyLost      \* history: a key expired while a weight granted under it was held

redisVars == <<impl, rsClient, rKeys, keyLost>>

\* History of the workers, read by the properties only.
VARIABLES
    releaseErr   \* per job, what the deferred RegisterDone of executeJob returned

\* The script cache of the server a RedisStore talks to.
VARIABLES
    rScripts     \* the cache holds the admission script under rs.scriptSHA

\* Limiters in processes of their own, each with its own RedisStore on one
\* server (with cPc and cLocal above).
VARIABLES
    cClient,     \* per limiter, RedisStore.client of its store: "open" or "nil"
    leaked,      \* history: per ID, the weight whose RegisterDone failed
    leakAt       \* history: per ID, the time of the latest failed RegisterDone

leakVars == <<cClient, leaked, leakAt>>

\* History of the dispatch-order model: the instants of grant and of start.
VARIABLES
    grantAt,     \* per item, time.Now() of the Request that granted it (0: none)
    startAt      \* per item, the clock when job.Task() was entered (0: not yet)

timingVars == <<grantAt, startAt>>

\* The dispatch-order model with jobs of different weights.
VARIABLES
    pqWeight,    \* per item, Job.Weight (0: not submitted yet)
    pqDenied     \* history: the items whose Request was denied at least once

weightVars == <<pqWeight, pqDenied>>

\* The limiter with Limiter.mu explicit: the mutex, and the position of every
\* goroutine between its lock and unlock calls.
VARIABLES
    mu,          \* Limiter.mu: [w: the goroutine holding Lock, r: those holding RLock]
    mSub,        \* per job slot, the submitter in ScheduleWithOptions
    mDisp,       \* the scheduler goroutine: [pc, job, wait, wake]
    mStop,       \* per Stop call, its position in Stop
    mWork        \* per job, its executeJob goroutine

mutexVars == <<mu, mSub, mDisp, mStop, mWork>>

extVars == <<releaseErr, rScripts, leakVars, timingVars, mutexVars, weightVars>>
backendVars == <<callerVars, redisVars>>
limiterVars == <<opts, lim, lopts, datastore, running, stopCloses, wg, queue, sched, schedulers>>
jobVars == <<sub, ret, jPriority, jWeight, resultChan, errorChan, worker>>
storeVars == <<lsState, lsClosed>>
histVars == <<sentResult, sentError, fullSend, disconnects, atStop, requested, lateStop,
              lastGrant>>
vars == <<limiterVars, jobVars, stop, storeVars, now, call, histVars, queueVars, backendVars,
          extVars>>

NoCall == [op |-> "none", id |-> "", weight |-> 0, canRun |-> FALSE, waitTime |-> 0,
           err |-> "nil", at |-> 0, prevGrant |-> 0]

NoCallerLocal == [id |-> "", weight |-> 0, t |-> 0, canRun |-> FALSE, waitTime |-> 0,
                  err |-> "nil"]

SchedIdle == [pc |-> "none", job |-> 0, wait |-> 0, wake |-> 0]

Min(a, b) == IF a < b THEN a ELSE b

\* The state before any call, with the options drawn from the given MinTime
\* values and the Datastore of a direct caller from the given implementations.
InitOver(minTimes, impls) ==
    /\ opts \in [ID : IDChoices, MaxConcurrent : MaxConcurrentChoices,
                 MinTime : minTimes, Datastore : {"nil", "store"}]
    /\ impl \in impls
    /\ rsClient = "open"
    /\ rKeys = [id \in IDs |-> NoRedisKey]
    /\ keyLost = FALSE
    /\ lim = "new"
    /\ lopts = opts
    /\ datastore = "none"
    /\ running = FALSE
    /\ stopCloses = 0
    /\ wg = 0
    /\ queue = <<>>
    /\ sched = SchedIdle
    /\ schedulers = 0
    /\ sub = [j \in Jobs |-> "idle"]
    /\ ret = [j \in Jobs |-> "none"]
    /\ jPriority = [j \in Jobs |-> 0]
    /\ jWeight = [j \in Jobs |-> 0]
    /\ resultChan = [j \in Jobs |-> <<>>]
    /\ errorChan = [j \in Jobs |-> <<>>]
    /\ worker = [j \in Jobs |-> "none"]
    /\ stop = [s \in Stoppers |-> "idle"]
    /\ lsState = EmptyLocalMap
    /\ lsClosed = FALSE
    /\ now = 1
    /\ call = NoCall
    /\ sentResult = [j \in Jobs |-> 0]
    /\ sentError = [j \in Jobs |-> 0]
    /\ fullSend = FALSE
    /\ disconnects = 0
    /\ atStop = {}
    /\ requested = {}
    /\ lateStop = [s \in Stoppers |-> FALSE]
    /\ lastGrant = [id \in IDs |-> 0]
    /\ pq = <<>>
    /\ pqPriority = [i \in Items |-> 0]
    /\ pqPhase = [i \in Items |-> "new"]
    /\ pqSched = [SchedIdle EXCEPT !.pc = "select"]
    /\ pqGrants = <<>>
    /\ pqScene = {}
    /\ lsMu = 0
    /\ cPc = [c \in Callers |-> "idle"]
    /\ cLocal = [c \in Callers |-> NoCallerLocal]
    /\ releaseErr = [j \in Jobs |-> "none"]
    /\ rScripts = TRUE
    /\ cClient = [c \in Callers |-> "open"]
    /\ leaked = [id \in IDs |-> 0]
    /\ leakAt = [id \in IDs |-> 0]
    /\ grantAt = [i \in Items |-> 0]
    /\ startAt = [i \in Items |-> 0]
    /\ pqWeight = [i \in Items |-> 0]
    /\ pqDenied = {}
    /\ mu = [w |-> <<"none", 0>>, r |-> {}]
    /\ mSub = [j \in Jobs |-> "idle"]
    /\ mDisp = [SchedIdle EXCEPT !.pc = "select"]
    /\ mStop = [s \in Stoppers |-> "idle"]
    /\ mWork = [j \in Jobs |-> "none"]

Init == InitOver(MinTimeChoices, {"local"})

(***************************************************************************)
(* limiter.go: construction.                                               *)
(***************************************************************************)
MissingID_Never(o) == FALSE

\* opts.Datastore != nil && opts.ID == ""
MissingID(o) == o.Datastore # "nil" /\ o.ID = ""

\* The opts NewLimiter stores: ID defaults only with the default store.
StoredOpts(o) ==
    IF o.Datastore = "nil" /\ o.ID = "" THEN [o EXCEPT !.ID = "default"] ELSE o

\* NewLimiter, with start(): the running flag, wg.Add(1), go l.scheduler().
NewLimiter ==
    /\ lim = "new"
    /\ IF MissingID(opts)
       THEN /\ lim' = "ErrMissingID"
            /\ UNCHANGED <<lopts, datastore, running, wg, queue, sched, schedulers, storeVars>>
       ELSE /\ lim' = "ok"
            /\ lopts' = StoredOpts(opts)
            /\ IF opts.Datastore = "nil"
               THEN /\ datastore' = "own"
                    /\ lsState' = EmptyLocalMap
                    /\ lsClosed' = FALSE
               ELSE /\ datastore' = "supplied"
                    /\ UNCHANGED storeVars
            /\ queue' = <<>>
            /\ IF running
               THEN UNCHANGED <<running, wg, sched, schedulers>>
               ELSE /\ running' = TRUE
                    /\ wg' = wg + 1
                    /\ sched' = [SchedIdle EXCEPT !.pc = "select"]
                    /\ schedulers' = schedulers + 1
    /\ UNCHANGED <<extVars, queueVars, backendVars, opts, stopCloses, jobVars, stop, now, call, histVars>>

(***************************************************************************)
(* limiter.go: submission.                                                 *)
(***************************************************************************)
InvalidWeight_NegativeOnly(weight) == weight < 0

\* weight <= 0
InvalidWeight(weight) == weight <= 0

RejectsSubmission_Never(r) == FALSE

\* !l.running, read under l.mu in ScheduleWithOptions
RejectsSubmission(r) == ~r

\* ScheduleWithOptions up to its select: the weight check, the Job, then under
\* l.mu the running check and the push. The job slots are taken in order (the
\* calls are interchangeable).
ScheduleWithOptions(j, priority, weight) ==
    /\ lim = "ok"
    /\ sub[j] = "idle"
    /\ \A k \in Jobs : k < j => sub[k] # "idle"
    /\ jWeight' = [jWeight EXCEPT ![j] = weight]
    /\ IF InvalidWeight(weight)
       THEN /\ sub' = [sub EXCEPT ![j] = "returned"]
            /\ ret' = [ret EXCEPT ![j] = "ErrInvalidWeight"]
            /\ UNCHANGED <<queue, jPriority>>
       ELSE /\ jPriority' = [jPriority EXCEPT ![j] = priority]
            /\ IF RejectsSubmission(running)
               THEN /\ sub' = [sub EXCEPT ![j] = "returned"]
                    /\ ret' = [ret EXCEPT ![j] = "ErrStoreClosed"]
                    /\ UNCHANGED queue
               ELSE /\ sub' = [sub EXCEPT ![j] = "waiting"]
                    /\ queue' = PushJob(jPriority', queue, j)
                    /\ UNCHANGED ret
    /\ UNCHANGED <<extVars, queueVars, backendVars, opts, lim, lopts, datastore, running, stopCloses, wg, sched, schedulers,
                   resultChan, errorChan, worker, stop, storeVars, now, call, histVars>>

\* Schedule
Schedule(j) == ScheduleWithOptions(j, DefaultPriority, DefaultWeight)

\* case result := <-job.resultChan: return result, nil
ReceiveResult(j) ==
    /\ sub[j] = "waiting"
    /\ Len(resultChan[j]) > 0
    /\ ret' = [ret EXCEPT ![j] = Head(resultChan[j])]
    /\ resultChan' = [resultChan EXCEPT ![j] = Tail(@)]
    /\ sub' = [sub EXCEPT ![j] = "returned"]
    /\ UNCHANGED <<extVars, queueVars, backendVars, limiterVars, jPriority, jWeight, errorChan, worker, stop, storeVars,
                   now, call, histVars>>

\* case err := <-job.errorChan: return nil, err
ReceiveError(j) ==
    /\ sub[j] = "waiting"
    /\ Len(errorChan[j]) > 0
    /\ ret' = [ret EXCEPT ![j] = Head(errorChan[j])]
    /\ errorChan' = [errorChan EXCEPT ![j] = Tail(@)]
    /\ sub' = [sub EXCEPT ![j] = "returned"]
    /\ UNCHANGED <<extVars, queueVars, backendVars, limiterVars, jPriority, jWeight, resultChan, worker, stop, storeVars,
                   now, call, histVars>>

(***************************************************************************)
(* limiter.go: the scheduler goroutine.                                    *)
(***************************************************************************)
\* l.queue.IsEmpty() || !l.running
SkipsTick(q, r) == IsEmpty(q) \/ ~r

\* case <-ticker.C with nothing to do: processJobs returns at its first check.
TickIdle ==
    /\ sched.pc = "select"
    /\ SkipsTick(queue, running)
    /\ UNCHANGED vars

\* case <-ticker.C: processJobs pops the next job (under l.mu.RLock).
TickPop ==
    /\ sched.pc = "select"
    /\ ~SkipsTick(queue, running)
    /\ sched' = [sched EXCEPT !.pc = "request", !.job = PopJobResult(jPriority, queue)]
    /\ queue' = PopJobRest(jPriority, queue)
    /\ UNCHANGED <<extVars, queueVars, backendVars, opts, lim, lopts, datastore, running, stopCloses, wg, schedulers,
                   jobVars, stop, storeVars, now, call, histVars>>

\* l.datastore.Request(l.opts.ID, job.Weight, l.opts) and the branch taken on
\* its results; on a grant, go l.executeJob(job).
RequestAdmission ==
    /\ sched.pc = "request"
    /\ LET j == sched.job
           r == LocalRequest(lsState, lsClosed, lopts.ID, jWeight[j], lopts, now)
       IN  /\ lsState' = r.state
           /\ requested' = requested \cup {j}
           /\ IF r.err # "nil"
              THEN /\ sched' = [sched EXCEPT !.pc = "senderr"]
                   /\ UNCHANGED worker
              ELSE IF ~r.canRun
              THEN /\ sched' = [sched EXCEPT !.pc = "repush", !.wait = r.waitTime]
                   /\ UNCHANGED worker
              ELSE /\ sched' = [sched EXCEPT !.pc = "select", !.job = 0]
                   /\ worker' = [worker EXCEPT ![j] = "launched"]
    /\ UNCHANGED <<extVars, queueVars, backendVars, opts, lim, lopts, datastore, running, stopCloses, wg, queue, schedulers,
                   sub, ret, jPriority, jWeight, resultChan, errorChan, stop, lsClosed, now, call,
                   sentResult, sentError, fullSend, disconnects, atStop, lateStop, lastGrant>>

ErrorBranchNext_FallThrough == "repush"

\* The return that ends the error branch of processJobs: back to the select.
ErrorBranchNext == "select"

\* job.errorChan <- fmt.Errorf("datastore error: %w", err): a blocking send.
SendDatastoreError ==
    /\ sched.pc = "senderr"
    /\ Len(errorChan[sched.job]) < ChanCap
    /\ errorChan' = [errorChan EXCEPT ![sched.job] = Append(@, "datastore error")]
    /\ sentError' = [sentError EXCEPT ![sched.job] = @ + 1]
    /\ sched' = IF ErrorBranchNext = "select"
                THEN [sched EXCEPT !.pc = "select", !.job = 0]
                ELSE [sched EXCEPT !.pc = ErrorBranchNext, !.wait = 0]
    /\ UNCHANGED <<extVars, queueVars, backendVars, opts, lim, lopts, datastore, running, stopCloses, wg, queue, schedulers,
                   sub, ret, jPriority, jWeight, resultChan, worker, stop, storeVars, now, call,
                   sentResult, fullSend, disconnects, atStop, requested, lateStop, lastGrant>>

\* The denied job goes back into the queue (under l.mu.Lock); processJobs then
\* sleeps when a wait was suggested. A sleep ends at the clock's last value
\* at the latest.
Reenqueue ==
    /\ sched.pc = "repush"
    /\ queue' = PushJob(jPriority, queue, sched.job)
    /\ sched' = IF sched.wait > 0
                THEN [sched EXCEPT !.pc = "sleep", !.job = 0,
                                   !.wake = Min(now + sched.wait, MaxTime)]
                ELSE [sched EXCEPT !.pc = "select", !.job = 0, !.wait = 0]
    /\ UNCHANGED <<extVars, queueVars, backendVars, opts, lim, lopts, datastore, running, stopCloses, wg, schedulers,
                   jobVars, stop, storeVars, now, call, histVars>>

\* time.Sleep(waitTime) returns.
WakeUp ==
    /\ sched.pc = "sleep"
    /\ now >= sched.wake
    /\ sched' = [sched EXCEPT !.pc = "select", !.wait = 0, !.wake = 0]
    /\ UNCHANGED <<extVars, queueVars, backendVars, opts, lim, lopts, datastore, running, stopCloses, wg, queue, schedulers,
                   jobVars, stop, storeVars, now, call, histVars>>

\* case <-l.stopCh: the scheduler enters processRemainingJobs.
ObserveStop ==
    /\ sched.pc = "select"
    /\ stopCloses > 0
    /\ sched' = [sched EXCEPT !.pc = "drain"]
    /\ atStop' = {queue[i] : i \in 1..Len(queue)}
    /\ UNCHANGED <<extVars, queueVars, backendVars, opts, lim, lopts, datastore, running, stopCloses, wg, queue, schedulers,
                   jobVars, stop, storeVars, now, call,
                   sentResult, sentError, fullSend, disconnects, requested, lateStop,
                   lastGrant>>

\* if l.queue.IsEmpty() { break } in processRemainingJobs
DrainFinished(q) == IsEmpty(q)

DrainedJobNext_Process == "request"

\* What processRemainingJobs does with a job it popped: the send of ErrStoreClosed.
DrainedJobNext == "drainsend"

\* processRemainingJobs: one pop of its loop (under l.mu.RLock).
DrainPop ==
    /\ sched.pc = "drain"
    /\ ~DrainFinished(queue)
    /\ sched' = [sched EXCEPT !.pc = DrainedJobNext, !.job = PopJobResult(jPriority, queue)]
    /\ queue' = PopJobRest(jPriority, queue)
    /\ UNCHANGED <<extVars, queueVars, backendVars, opts, lim, lopts, datastore, running, stopCloses, wg, schedulers,
                   jobVars, stop, storeVars, now, call, histVars>>

\* job.errorChan <- ErrStoreClosed: a blocking send.
DrainSend ==
    /\ sched.pc = "drainsend"
    /\ Len(errorChan[sched.job]) < ChanCap
    /\ errorChan' = [errorChan EXCEPT ![sched.job] = Append(@, "ErrStoreClosed")]
    /\ sentError' = [sentError EXCEPT ![sched.job] = @ + 1]
    /\ sched' = [sched EXCEPT !.pc = "drain", !.job = 0]
    /\ UNCHANGED <<extVars, queueVars, backendVars, opts, lim, lopts, datastore, running, stopCloses, wg, queue, schedulers,
                   sub, ret, jPriority, jWeight, resultChan, worker, stop, storeVars, now, call,
                   sentResult, fullSend, disconnects, atStop, requested, lateStop, lastGrant>>

\* processRemainingJobs finds the queue empty; scheduler returns: wg.Done().
DrainExit ==
    /\ sched.pc = "drain"
    /\ DrainFinished(queue)
    /\ sched' = [sched EXCEPT !.pc = "exited"]
    /\ wg' = wg - 1
    /\ UNCHANGED <<extVars, queueVars, backendVars, opts, lim, lopts, datastore, running, stopCloses, queue, schedulers,
                   jobVars, stop, storeVars, now, call, histVars>>

(***************************************************************************)
(* limiter.go: executeJob, one goroutine per granted job.                  *)
(***************************************************************************)
\* result, err := job.Task() is entered.
InvokeTask(j) ==
    /\ worker[j] = "launched"
    /\ worker' = [worker EXCEPT ![j] = "executing"]
    /\ UNCHANGED <<extVars, queueVars, backendVars, limiterVars, sub, ret, jPriority, jWeight, resultChan, errorChan,
                   stop, storeVars, now, call, histVars>>

\* job.Task() returns (ok: err == nil) and the outcome is sent with a
\* non-blocking send: select { case ch <- x: default: }.
TaskReturns(j, ok) ==
    /\ worker[j] = "executing"
    /\ worker' = [worker EXCEPT ![j] = "finished"]
    /\ IF ok
       THEN /\ IF Len(resultChan[j]) < ChanCap
               THEN /\ resultChan' = [resultChan EXCEPT ![j] = Append(@, "value")]
                    /\ sentResult' = [sentResult EXCEPT ![j] = @ + 1]
                    /\ UNCHANGED fullSend
               ELSE /\ fullSend' = TRUE
                    /\ UNCHANGED <<resultChan, sentResult>>
            /\ UNCHANGED <<errorChan, sentError>>
       ELSE /\ IF Len(errorChan[j]) < ChanCap
               THEN /\ errorChan' = [errorChan EXCEPT ![j] = Append(@, "task error")]
                    /\ sentError' = [sentError EXCEPT ![j] = @ + 1]
                    /\ UNCHANGED fullSend
               ELSE /\ fullSend' = TRUE
                    /\ UNCHANGED <<errorChan, sentError>>
            /\ UNCHANGED <<resultChan, sentResult>>
    /\ UNCHANGED <<extVars, queueVars, backendVars, limiterVars, sub, ret, jPriority, jWeight, stop, storeVars, now, call,
                   disconnects, atStop, requested, lateStop, lastGrant>>

SurfacedError_Delivered(err) == err

\* if err := l.datastore.RegisterDone(...); err != nil { _ = err }: what is left
\* of the error for the job's channels, which is nothing.
SurfacedError(err) == "nil"

ReleasedWeight_Default(weight) == DefaultWeight

\* The weight executeJob passes to RegisterDone: job.Weight.
ReleasedWeight(weight) == weight

\* The deferred l.datastore.RegisterDone(l.opts.ID, job.Weight); its error is
\* dropped. With record set, what the call returned is kept in releaseErr.
ReleaseWeight(j, record) ==
    /\ worker[j] = "finished"
    /\ worker' = [worker EXCEPT ![j] = "done"]
    /\ LET r == LocalRegisterDone(lsState, lsClosed, lopts.ID, ReleasedWeight(jWeight[j]))
       IN  /\ lsState' = r.state
           /\ releaseErr' = IF record THEN [releaseErr EXCEPT ![j] = r.err] ELSE releaseErr
           /\ IF SurfacedError(r.err) = "nil"
              THEN UNCHANGED <<errorChan, sentError, fullSend>>
              ELSE IF Len(errorChan[j]) < ChanCap
              THEN /\ errorChan' = [errorChan EXCEPT ![j] = Append(@, SurfacedError(r.err))]
                   /\ sentError' = [sentError EXCEPT ![j] = @ + 1]
                   /\ UNCHANGED fullSend
              ELSE /\ fullSend' = TRUE
                   /\ UNCHANGED <<errorChan, sentError>>
    /\ UNCHANGED <<rScripts, leakVars, timingVars, mutexVars, weightVars, queueVars, backendVars, limiterVars,
                   sub, ret, jPriority, jWeight, resultChan, stop, lsClosed, now, call, sentResult,
                   disconnects, atStop, requested, lateStop, lastGrant>>

RegisterDone(j) == ReleaseWeight(j, FALSE)

(***************************************************************************)
(* limiter.go: Stop.                                                       *)
(***************************************************************************)
StopIsNoop_Never(r) == FALSE

\* !l.running, read under l.mu in Stop
StopIsNoop(r) == ~r

\* Stop up to wg.Wait(): under l.mu, the running check, the flag, close(l.stopCh).
\* The calls are taken in order (they are interchangeable).
StopBegin(s) ==
    /\ lim = "ok"
    /\ stop[s] = "idle"
    /\ \A k \in Stoppers : k < s => stop[k] # "idle"
    /\ IF StopIsNoop(running)
       THEN /\ stop' = [stop EXCEPT ![s] = "returned"]
            /\ lateStop' = [lateStop EXCEPT ![s] = TRUE]
            /\ UNCHANGED <<running, stopCloses>>
       ELSE /\ running' = FALSE
            /\ stopCloses' = stopCloses + 1
            /\ stop' = [stop EXCEPT ![s] = "wait"]
            /\ UNCHANGED lateStop
    /\ UNCHANGED <<extVars, queueVars, backendVars, opts, lim, lopts, datastore, wg, queue, sched, schedulers, jobVars,
                   storeVars, now, call, sentResult, sentError, fullSend, disconnects,
                   atStop, requested, lastGrant>>

\* l.wg.Wait() returns
WaitGroupDone(n) == n = 0

\* wg.Wait() returns, then return l.datastore.Disconnect(): LocalStore.Disconnect
\* sets closed and drops the map.
StopFinish(s) ==
    /\ stop[s] = "wait"
    /\ WaitGroupDone(wg)
    /\ lsClosed' = TRUE
    /\ lsState' = EmptyLocalMap
    /\ disconnects' = disconnects + 1
    /\ stop' = [stop EXCEPT ![s] = "returned"]
    /\ UNCHANGED <<extVars, queueVars, backendVars, limiterVars, jobVars, now, call, sentResult, sentError, fullSend,
                   atStop, requested, lateStop, lastGrant>>

(***************************************************************************)
(* The environment.                                                        *)
(***************************************************************************)
\* The owner of a store that was handed to NewLimiter calls its Disconnect.
ExternalDisconnect ==
    /\ opts.Datastore = "store"
    /\ ~lsClosed
    /\ lsClosed' = TRUE
    /\ lsState' = EmptyLocalMap
    /\ UNCHANGED <<extVars, queueVars, backendVars, limiterVars, jobVars, stop, now, call, histVars>>

\* Time passes.
ClockTick ==
    /\ now < MaxTime
    /\ now' = now + 1
    /\ UNCHANGED <<extVars, queueVars, backendVars, limiterVars, jobVars, stop, storeVars, call, histVars>>

Next ==
    \/ NewLimiter
    \/ \E j \in Jobs : Schedule(j)
    \/ \E j \in Jobs, p \in Priorities, w \in Weights : ScheduleWithOptions(j, p, w)
    \/ \E j \in Jobs : ReceiveResult(j)
    \/ \E j \in Jobs : ReceiveError(j)
    \/ TickIdle
    \/ TickPop
    \/ RequestAdmission
    \/ SendDatastoreError
    \/ Reenqueue
    \/ WakeUp
    \/ ObserveStop
    \/ DrainPop
    \/ DrainSend
    \/ DrainExit
    \/ \E j \in Jobs : InvokeTask(j)
    \/ \E j \in Jobs, ok \in BOOLEAN : TaskReturns(j, ok)
    \/ \E j \in Jobs : RegisterDone(j)
    \/ \E s \in Stoppers : StopBegin(s)
    \/ \E s \in Stoppers : StopFinish(s)
    \/ ExternalDisconnect
    \/ ClockTick

Spec == Init /\ [][Next]_vars

(***************************************************************************)
(* The same limiter with the result of every deferred RegisterDone kept    *)
(* in releaseErr.                                                          *)
(***************************************************************************)
RegisterDoneObserved(j) == ReleaseWeight(j, TRUE)

ObservedNext ==
    \/ NewLimiter
    \/ \E j \in Jobs : Schedule(j)
    \/ \E j \in Jobs, p \in Priorities, w \in Weights : ScheduleWithOptions(j, p, w)
    \/ \E j \in Jobs : ReceiveResult(j)
    \/ \E j \in Jobs : ReceiveError(j)
    \/ TickIdle
    \/ TickPop
    \/ RequestAdmission
    \/ SendDatastoreError
    \/ Reenqueue
    \/ WakeUp
    \/ ObserveStop
    \/ DrainPop
    \/ DrainSend
    \/ DrainExit
    \/ \E j \in Jobs : InvokeTask(j)
    \/ \E j \in Jobs, ok \in BOOLEAN : TaskReturns(j, ok)
    \/ \E j \in Jobs : RegisterDoneObserved(j)
    \/ \E s \in Stoppers : StopBegin(s)
    \/ \E s \in Stoppers : StopFinish(s)
    \/ ExternalDisconnect
    \/ ClockTick

SpecObserved == Init /\ [][ObservedNext]_vars

(***************************************************************************)
(* A direct caller of the LocalStore (as the LocalStore tests): it calls   *)
(* Request, RegisterDone and Disconnect with the options of Init.          *)
(***************************************************************************)
MaxRunning == 3     \* a direct caller stops requesting beyond this running weight

DirectWeights == {1, 2}

DirectRequest(id, weight) ==
    /\ impl = "local"
    /\ lsState[id].running + weight <= MaxRunning
    /\ LET r == LocalRequest(lsState, lsClosed, id, weight, opts, now)
       IN  /\ lsState' = r.state
           /\ call' = [op |-> "Request", id |-> id, weight |-> weight, canRun |-> r.canRun,
                       waitTime |-> r.waitTime, err |-> r.err, at |-> now,
                       prevGrant |-> lastGrant[id]]
           /\ lastGrant' = IF r.canRun THEN [lastGrant EXCEPT ![id] = now] ELSE lastGrant
    /\ UNCHANGED <<extVars, queueVars, backendVars, limiterVars, jobVars, stop, lsClosed, now,
                   sentResult, sentError, fullSend, disconnects, atStop, requested, lateStop>>

DirectRegisterDone(id, weight) ==
    /\ impl = "local"
    /\ LET r == LocalRegisterDone(lsState, lsClosed, id, weight)
       IN  /\ lsState' = r.state
           /\ call' = [NoCall EXCEPT !.op = "RegisterDone", !.id = id, !.weight = weight,
                                     !.err = r.err, !.at = now]
    /\ UNCHANGED <<extVars, queueVars, backendVars, limiterVars, jobVars, stop, lsClosed, now, histVars>>

DirectDisconnect ==
    /\ impl = "local"
    /\ ~lsClosed
    /\ lsClosed' = TRUE
    /\ lsState' = EmptyLocalMap
    /\ call' = [NoCall EXCEPT !.op = "Disconnect", !.at = now]
    /\ UNCHANGED <<extVars, queueVars, backendVars, limiterVars, jobVars, stop, now, histVars>>

StoreNext ==
    \/ \E id \in IDs, w \in DirectWeights : DirectRequest(id, w)
    \/ \E id \in IDs, w \in DirectWeights : DirectRegisterDone(id, w)
    \/ DirectDisconnect
    \/ ClockTick

SpecStore == Init /\ [][StoreNext]_vars

(***************************************************************************)
(* A direct caller of a Datastore that is a LocalStore or a RedisStore.    *)
(***************************************************************************)
RedisStoreRequest(id, weight) ==
    /\ impl = "redis"
    /\ RedisVisible(rKeys[id], now).running + weight <= MaxRunning
    /\ LET r == RedisRequest(rKeys, rScripts, rsClient, id, weight, opts, now)
       IN  /\ rKeys' = r.keys
           /\ call' = [op |-> "Request", id |-> id, weight |-> weight, canRun |-> r.canRun,
                       waitTime |-> r.waitTime, err |-> r.err, at |-> now,
                       prevGrant |-> lastGrant[id]]
           /\ lastGrant' = IF r.canRun THEN [lastGrant EXCEPT ![id] = now] ELSE lastGrant
    /\ UNCHANGED <<extVars, queueVars, callerVars, limiterVars, jobVars, stop, storeVars, now,
                   sentResult, sentError, fullSend, disconnects, atStop, requested, lateStop,
                   impl, rsClient, keyLost>>

RedisStoreRegisterDone(id, weight) ==
    /\ impl = "redis"
    /\ RedisVisible(rKeys[id], now).running - weight >= -MaxRunning
    /\ LET r == RedisRegisterDone(rKeys, rsClient, id, weight, now)
       IN  /\ rKeys' = r.keys
           /\ call' = [NoCall EXCEPT !.op = "RegisterDone", !.id = id, !.weight = weight,
                                     !.err = r.err, !.at = now]
    /\ UNCHANGED <<extVars, queueVars, callerVars, limiterVars, jobVars, stop, storeVars, now, histVars,
                   impl, rsClient, keyLost>>

\* RedisStore.Disconnect: rs.client.Close(); rs.client = nil
RedisStoreDisconnect ==
    /\ impl = "redis"
    /\ rsClient = "open"
    /\ rsClient' = "nil"
    /\ call' = [NoCall EXCEPT !.op = "Disconnect", !.at = now]
    /\ UNCHANGED <<extVars, queueVars, callerVars, limiterVars, jobVars, stop, storeVars, now, histVars,
                   impl, rKeys, keyLost>>

RedisStoreNext ==
    \/ \E id \in IDs, w \in DirectWeights : RedisStoreRequest(id, w)
    \/ \E id \in IDs, w \in DirectWeights : RedisStoreRegisterDone(id, w)
    \/ RedisStoreDisconnect

DatastoreNext == StoreNext \/ RedisStoreNext

\* The caller passes its own IDs; only MaxConcurrent and MinTime of the options
\* reach the store.
DatastoreInit == InitOver(RedisMinTimeChoices, Impls) /\ opts.ID = "a" /\ opts.Datastore = "store"

SpecDatastore == DatastoreInit /\ [][DatastoreNext]_vars

(***************************************************************************)
(* A direct caller of a RedisStore whose server can lose its script cache  *)
(* (SCRIPT FLUSH, a restart or a failover); a store built afterwards on    *)
(* the same server loads the script again.                                 *)
(***************************************************************************)
\* The server drops its cached scripts.
ScriptFlush ==
    /\ impl = "redis"
    /\ rScripts
    /\ rScripts' = FALSE
    /\ UNCHANGED <<releaseErr, leakVars, timingVars, mutexVars, weightVars, queueVars, backendVars, limiterVars, jobVars, stop,
                   storeVars, now, call, histVars>>

\* loadScript, run by NewRedisStore of another store: SCRIPT EXISTS, and
\* SCRIPT LOAD when the server does not hold the script.
loadScript ==
    /\ impl = "redis"
    /\ ~rScripts
    /\ rScripts' = TRUE
    /\ UNCHANGED <<releaseErr, leakVars, timingVars, mutexVars, weightVars, queueVars, backendVars, limiterVars, jobVars, stop,
                   storeVars, now, call, histVars>>

ScriptsNext ==
    \/ \E id \in IDs, w \in DirectWeights : RedisStoreRequest(id, w)
    \/ \E id \in IDs, w \in DirectWeights : RedisStoreRegisterDone(id, w)
    \/ RedisStoreDisconnect
    \/ ScriptFlush
    \/ loadScript
    \/ ClockTick

ScriptsInit == DatastoreInit /\ impl = "redis"

SpecScripts == ScriptsInit /\ [][ScriptsNext]_vars

(***************************************************************************)
(* A LocalStore and a RedisStore side by side: a caller issues every call  *)
(* on both, with the same arguments at the same clock value.               *)
(***************************************************************************)
BothRequest(id, weight) ==
    /\ lsState[id].running + weight <= MaxRunning
    /\ RedisVisible(rKeys[id], now).running + weight <= MaxRunning
    /\ LET l == LocalRequest(lsState, lsClosed, id, weight, opts, now)
           r == RedisRequest(rKeys, rScripts, rsClient, id, weight, opts, now)
       IN  /\ lsState' = l.state
           /\ rKeys' = r.keys
           /\ call' = [op |-> "Request", id |-> id, weight |-> weight, canRun |-> l.canRun,
                       waitTime |-> l.waitTime, err |-> l.err, at |-> now,
                       prevGrant |-> lastGrant[id]]
           /\ lastGrant' = IF l.canRun THEN [lastGrant EXCEPT ![id] = now] ELSE lastGrant
    /\ UNCHANGED <<extVars, queueVars, callerVars, limiterVars, jobVars, stop, lsClosed, now,
                   sentResult, sentError, fullSend, disconnects, atStop, requested, lateStop,
                   impl, rsClient, keyLost>>

BothRegisterDone(id, weight) ==
    /\ RedisVisible(rKeys[id], now).running - weight >= -MaxRunning
    /\ LET l == LocalRegisterDone(lsState, lsClosed, id, weight)
           r == RedisRegisterDone(rKeys, rsClient, id, weight, now)
       IN  /\ lsState' = l.state
           /\ rKeys' = r.keys
           /\ call' = [NoCall EXCEPT !.op = "RegisterDone", !.id = id, !.weight = weight,
                                     !.err = l.err, !.at = now]
    /\ UNCHANGED <<extVars, queueVars, callerVars, limiterVars, jobVars, stop, lsClosed, now,
                   histVars, impl, rsClient, keyLost>>

BothNext ==
    \/ \E id \in IDs, w \in DirectWeights : BothRequest(id, w)
    \/ \E id \in IDs, w \in DirectWeights : BothRegisterDone(id, w)
    \/ ClockTick

BothInit ==
    InitOver(RedisMinTimeChoices, {"local"}) /\ opts.ID = "a" /\ opts.Datastore = "store"

SpecBoth == BothInit /\ [][BothNext]_vars

(***************************************************************************)
(* Limiters that share one Datastore. Each one requests admission for a    *)
(* job as processJobs does and, once granted, releases exactly the granted *)
(* weight as executeJob does; the store stays open.                        *)
(***************************************************************************)
\* The limiters whose job holds a grant for id.
Holders(id) == {c \in Callers : cPc[c] = "holding" /\ cLocal[c].id = id}

RECURSIVE HeldBy(_)
HeldBy(S) ==
    IF S = {} THEN 0
    ELSE LET c == CHOOSE x \in S : TRUE IN cLocal[c].weight + HeldBy(S \ {c})

\* The weight granted for id and not yet released.
Held(id) == HeldBy(Holders(id))

\* The key of some held grant has expired on the server.
KeyExpiredUnderGrant ==
    \E c \in Callers : /\ cPc[c] = "holding"
                        /\ rKeys[cLocal[c].id] # RedisVisible(rKeys[cLocal[c].id], now)

\* processJobs: l.datastore.Request(l.opts.ID, job.Weight, l.opts); on a grant
\* the job starts executing.
ClientRequest(c, id, weight) ==
    /\ cPc[c] = "idle"
    /\ LET r == IF impl = "local"
                THEN LocalRequest(lsState, lsClosed, id, weight, opts, now)
                ELSE RedisRequest(rKeys, rScripts, rsClient, id, weight, opts, now)
       IN  /\ IF impl = "local"
              THEN lsState' = r.state /\ UNCHANGED rKeys
              ELSE rKeys' = r.keys /\ UNCHANGED lsState
           /\ cLocal' = [cLocal EXCEPT ![c] =
                           IF r.canRun
                           THEN [NoCallerLocal EXCEPT !.id = id, !.weight = weight,
                                                      !.t = now, !.canRun = TRUE]
                           ELSE NoCallerLocal]
           /\ cPc' = [cPc EXCEPT ![c] = IF r.canRun THEN "holding" ELSE "idle"]
           /\ call' = [op |-> "Request", id |-> id, weight |-> weight, canRun |-> r.canRun,
                       waitTime |-> r.waitTime, err |-> r.err, at |-> now,
                       prevGrant |-> lastGrant[id]]
           /\ lastGrant' = IF r.canRun THEN [lastGrant EXCEPT ![id] = now] ELSE lastGrant
    /\ keyLost' = (keyLost \/ KeyExpiredUnderGrant)
    /\ UNCHANGED <<extVars, queueVars, limiterVars, jobVars, stop, lsClosed, now,
                   sentResult, sentError, fullSend, disconnects, atStop, requested, lateStop,
                   lsMu, impl, rsClient>>

\* executeJob: the deferred l.datastore.RegisterDone(l.opts.ID, job.Weight)
ClientRegisterDone(c) ==
    /\ cPc[c] = "holding"
    /\ IF impl = "local"
       THEN /\ lsState' = LocalRegisterDone(lsState, lsClosed, cLocal[c].id,
                                            cLocal[c].weight).state
            /\ UNCHANGED rKeys
       ELSE /\ rKeys' = RedisRegisterDone(rKeys, rsClient, cLocal[c].id,
                                          cLocal[c].weight, now).keys
            /\ UNCHANGED lsState
    /\ cPc' = [cPc EXCEPT ![c] = "idle"]
    /\ call' = [NoCall EXCEPT !.op = "RegisterDone", !.id = cLocal[c].id,
                              !.weight = cLocal[c].weight, !.at = now]
    /\ cLocal' = [cLocal EXCEPT ![c] = NoCallerLocal]
    /\ keyLost' = (keyLost \/ KeyExpiredUnderGrant)
    /\ UNCHANGED <<extVars, queueVars, limiterVars, jobVars, stop, lsClosed, now, histVars,
                   lsMu, impl, rsClient>>

ClientsNext ==
    \/ \E c \in Callers, id \in IDs, w \in DirectWeights : ClientRequest(c, id, w)
    \/ \E c \in Callers : ClientRegisterDone(c)
    \/ ClockTick

\* The limiters were built with ID "a"; which Datastore field they were given
\* is the choice of impl.
ClientsInit == InitOver(RedisMinTimeChoices, Impls) /\ opts.ID = "a" /\ opts.Datastore = "store"

SpecClients == ClientsInit /\ [][ClientsNext]_vars

(***************************************************************************)
(* Limiters in separate processes on one server, each with a RedisStore of *)
(* its own. Stop of a limiter disconnects its store without waiting for    *)
(* the job it launched; the RegisterDone of that job then fails and the    *)
(* error is dropped.                                                       *)
(***************************************************************************)
\* processJobs of limiter c: l.datastore.Request on its own store.
LeakRequest(c, id, weight) ==
    /\ cPc[c] = "idle"
    /\ cClient[c] = "open"
    /\ RedisVisible(rKeys[id], now).running + weight <= MaxRunning
    /\ LET r == RedisRequest(rKeys, rScripts, cClient[c], id, weight, opts, now)
       IN  /\ rKeys' = r.keys
           /\ cLocal' = [cLocal EXCEPT ![c] =
                           IF r.canRun
                           THEN [NoCallerLocal EXCEPT !.id = id, !.weight = weight,
                                                      !.t = now, !.canRun = TRUE]
                           ELSE NoCallerLocal]
           /\ cPc' = [cPc EXCEPT ![c] = IF r.canRun THEN "holding" ELSE "idle"]
           /\ call' = [op |-> "Request", id |-> id, weight |-> weight, canRun |-> r.canRun,
                       waitTime |-> r.waitTime, err |-> r.err, at |-> now,
                       prevGrant |-> lastGrant[id]]
           /\ lastGrant' = IF r.canRun THEN [lastGrant EXCEPT ![id] = now] ELSE lastGrant
    /\ UNCHANGED <<releaseErr, rScripts, leakVars, timingVars, mutexVars, weightVars, queueVars, limiterVars, jobVars, stop,
                   storeVars, now, sentResult, sentError, fullSend, disconnects, atStop,
                   requested, lateStop, lsMu, impl, rsClient, keyLost>>

\* Stop of limiter c: return l.datastore.Disconnect(), while a launched job
\* may still be running.
LeakStop(c) ==
    /\ cClient[c] = "open"
    /\ cClient' = [cClient EXCEPT ![c] = "nil"]
    /\ UNCHANGED <<releaseErr, rScripts, leaked, leakAt, timingVars, mutexVars, weightVars, queueVars, backendVars, limiterVars,
                   jobVars, stop, storeVars, now, call, histVars>>

\* executeJob of limiter c: the deferred RegisterDone on its own store; an
\* error is dropped and the weight stays counted on the server.
LeakRegisterDone(c) ==
    /\ cPc[c] = "holding"
    /\ LET id == cLocal[c].id
           r == RedisRegisterDone(rKeys, cClient[c], id, cLocal[c].weight, now)
       IN  /\ rKeys' = r.keys
           /\ call' = [NoCall EXCEPT !.op = "RegisterDone", !.id = id,
                                     !.weight = cLocal[c].weight, !.err = r.err, !.at = now]
           /\ IF r.err # "nil"
              THEN /\ leaked' = [leaked EXCEPT ![id] = @ + cLocal[c].weight]
                   /\ leakAt' = [leakAt EXCEPT ![id] = now]
              ELSE UNCHANGED <<leaked, leakAt>>
    /\ cPc' = [cPc EXCEPT ![c] = "idle"]
    /\ cLocal' = [cLocal EXCEPT ![c] = NoCallerLocal]
    /\ UNCHANGED <<releaseErr, rScripts, cClient, timingVars, mutexVars, weightVars, queueVars, limiterVars, jobVars, stop,
                   storeVars, now, histVars, lsMu, impl, rsClient, keyLost>>

LeakNext ==
    \/ \E c \in Callers, id \in IDs, w \in DirectWeights : LeakRequest(c, id, w)
    \/ \E c \in Callers : LeakStop(c)
    \/ \E c \in Callers : LeakRegisterDone(c)
    \/ ClockTick

LeakInit == ClientsInit /\ impl = "redis"

SpecLeak == LeakInit /\ [][LeakNext]_vars

(***************************************************************************)
(* Concurrent callers of one LocalStore. Request is split at the points    *)
(* where another goroutine could run if ls.mu did not exclude it: taking   *)
(* the lock, the checks (lines 48-75), and the update with the deferred    *)
(* unlock (lines 78-81). A caller that was granted releases its weight     *)
(* with RegisterDone.                                                      *)
(***************************************************************************)
MutexFree_Always(m) == TRUE

\* ls.mu.Lock() returns when no goroutine holds the mutex.
MutexFree(m) == m = 0

\* Request: ls.mu.Lock()
CallerLock(c, id, weight) ==
    /\ cPc[c] = "idle"
    /\ MutexFree(lsMu)
    /\ lsMu' = c
    /\ cPc' = [cPc EXCEPT ![c] = "locked"]
    /\ cLocal' = [cLocal EXCEPT ![c] = [NoCallerLocal EXCEPT !.id = id, !.weight = weight]]
    /\ UNCHANGED <<extVars, queueVars, redisVars, limiterVars, jobVars, stop, storeVars, now, call, histVars>>

\* Request: the closed check, the lookup of the state, now := time.Now() and
\* the two checks.
CallerCheck(c) ==
    /\ cPc[c] = "locked"
    /\ LET id == cLocal[c].id
           r == LocalRequest(lsState, lsClosed, id, cLocal[c].weight, opts, now)
       IN  /\ cLocal' = [cLocal EXCEPT ![c].t = now, ![c].canRun = r.canRun,
                                       ![c].waitTime = r.waitTime, ![c].err = r.err]
           /\ lsState' = IF lsClosed THEN lsState ELSE [lsState EXCEPT ![id].exists = TRUE]
           /\ cPc' = [cPc EXCEPT ![c] = IF r.canRun THEN "update" ELSE "unlock"]
    /\ UNCHANGED <<extVars, queueVars, redisVars, limiterVars, jobVars, stop, lsClosed, now, call, histVars, lsMu>>

\* Request: state.running += weight; state.lastStart = now; return true, 0, nil
\* (and the deferred ls.mu.Unlock()).
CallerUpdate(c) ==
    /\ cPc[c] = "update"
    /\ LET id == cLocal[c].id
       IN  /\ lsState' = [lsState EXCEPT ![id].running = @ + cLocal[c].weight,
                                         ![id].lastStart = cLocal[c].t]
           /\ call' = [op |-> "Request", id |-> id, weight |-> cLocal[c].weight,
                       canRun |-> TRUE, waitTime |-> 0, err |-> "nil", at |-> cLocal[c].t,
                       prevGrant |-> lastGrant[id]]
           /\ lastGrant' = [lastGrant EXCEPT ![id] = cLocal[c].t]
    /\ lsMu' = 0
    /\ cPc' = [cPc EXCEPT ![c] = "holding"]
    /\ UNCHANGED <<extVars, queueVars, redisVars, limiterVars, jobVars, stop, lsClosed, now,
                   sentResult, sentError, fullSend, disconnects, atStop, requested, lateStop,
                   cLocal>>

\* Request: a return without a grant (and the deferred ls.mu.Unlock()).
CallerDenied(c) ==
    /\ cPc[c] = "unlock"
    /\ lsMu' = 0
    /\ cPc' = [cPc EXCEPT ![c] = "idle"]
    /\ UNCHANGED <<extVars, queueVars, redisVars, limiterVars, jobVars, stop, storeVars, now, call, histVars,
                   cLocal>>

\* RegisterDone(id, weight) of a caller that was granted, under ls.mu.
CallerRegisterDone(c) ==
    /\ cPc[c] = "holding"
    /\ MutexFree(lsMu)
    /\ lsState' = LocalRegisterDone(lsState, lsClosed, cLocal[c].id, cLocal[c].weight).state
    /\ cPc' = [cPc EXCEPT ![c] = "idle"]
    /\ UNCHANGED <<extVars, queueVars, redisVars, limiterVars, jobVars, stop, lsClosed, now, call, histVars,
                   lsMu, cLocal>>

CallersNext ==
    \/ \E c \in Callers, id \in IDs, w \in DirectWeights : CallerLock(c, id, w)
    \/ \E c \in Callers : CallerCheck(c)
    \/ \E c \in Callers : CallerUpdate(c)
    \/ \E c \in Callers : CallerDenied(c)
    \/ \E c \in Callers : CallerRegisterDone(c)
    \/ ClockTick

SpecCallers == Init /\ [][CallersNext]_vars

(***************************************************************************)
(* The dispatch order of a queue of up to four jobs: ScheduleWithOptions   *)
(* pushes, processJobs pops, requests admission and pushes back a denied   *)
(* job, executeJob releases the weight. The limiter is running on its own  *)
(* LocalStore and every job has weight 1.                                  *)
(***************************************************************************)
Range(q) == {q[k] : k \in 1..Len(q)}

\* The items of a queue that holds exactly priorities 1, 5 and 10 while the
\* single slot of MaxConcurrent = 1 is taken; {} in any other state.
SceneItems(q, prio, st) ==
    IF /\ lopts.MaxConcurrent = 1
       /\ st[lopts.ID].running = 1
       /\ Len(q) = 3
       /\ {prio[i] : i \in Range(q)} = {1, 5, 10}
    THEN Range(q)
    ELSE {}

SceneNext(q, prio, st) == IF pqScene # {} THEN pqScene ELSE SceneItems(q, prio, st)

\* ScheduleWithOptions(task, p, 1) up to l.queue.PushJob(job).
QueueSubmit(i, p) ==
    /\ pqPhase[i] = "new"
    /\ \A k \in 1..(i - 1) : pqPhase[k] # "new"
    /\ pqPriority' = [pqPriority EXCEPT ![i] = p]
    /\ pq' = PushJob(pqPriority', pq, i)
    /\ pqPhase' = [pqPhase EXCEPT ![i] = "queued"]
    /\ pqScene' = SceneNext(pq', pqPriority', lsState)
    /\ UNCHANGED <<extVars, backendVars, limiterVars, jobVars, stop, storeVars, now, call, histVars,
                   pqSched, pqGrants>>

\* processJobs: job := l.queue.PopJob()
QueuePop ==
    /\ pqSched.pc = "select"
    /\ ~IsEmpty(pq)
    /\ pqSched' = [pqSched EXCEPT !.pc = "request", !.job = PopJobResult(pqPriority, pq)]
    /\ pq' = PopJobRest(pqPriority, pq)
    /\ pqPhase' = [pqPhase EXCEPT ![PopJobResult(pqPriority, pq)] = "popped"]
    /\ UNCHANGED <<extVars, backendVars, limiterVars, jobVars, stop, storeVars, now, call, histVars,
                   pqPriority, pqGrants, pqScene>>

\* processJobs: l.datastore.Request and the branch on its results.
QueueRequest ==
    /\ pqSched.pc = "request"
    /\ LET i == pqSched.job
           r == LocalRequest(lsState, lsClosed, lopts.ID, DefaultWeight, lopts, now)
       IN  /\ lsState' = r.state
           /\ IF r.err # "nil"
              THEN /\ pqSched' = [pqSched EXCEPT !.pc = "select", !.job = 0]
                   /\ pqPhase' = [pqPhase EXCEPT ![i] = "done"]
                   /\ UNCHANGED pqGrants
              ELSE IF ~r.canRun
              THEN /\ pqSched' = [pqSched EXCEPT !.pc = "repush", !.wait = r.waitTime]
                   /\ UNCHANGED <<pqPhase, pqGrants>>
              ELSE /\ pqSched' = [pqSched EXCEPT !.pc = "select", !.job = 0]
                   /\ pqPhase' = [pqPhase EXCEPT ![i] = "executing"]
                   /\ pqGrants' = Append(pqGrants, i)
    /\ UNCHANGED <<extVars, backendVars, limiterVars, jobVars, stop, lsClosed, now, call, histVars,
                   pq, pqPriority, pqScene>>

\* processJobs: l.queue.PushJob(job) of a denied job, then the sleep.
QueueReenqueue ==
    /\ pqSched.pc = "repush"
    /\ pq' = PushJob(pqPriority, pq, pqSched.job)
    /\ pqPhase' = [pqPhase EXCEPT ![pqSched.job] = "queued"]
    /\ pqSched' = IF pqSched.wait > 0
                  THEN [pqSched EXCEPT !.pc = "sleep", !.job = 0,
                                       !.wake = Min(now + pqSched.wait, MaxTime)]
                  ELSE [pqSched EXCEPT !.pc = "select", !.job = 0, !.wait = 0]
    /\ pqScene' = SceneNext(pq', pqPriority, lsState)
    /\ UNCHANGED <<extVars, backendVars, limiterVars, jobVars, stop, storeVars, now, call, histVars,
                   pqPriority, pqGrants>>

\* time.Sleep(waitTime) returns.
QueueWakeUp ==
    /\ pqSched.pc = "sleep"
    /\ now >= pqSched.wake
    /\ pqSched' = [pqSched EXCEPT !.pc = "select", !.wait = 0, !.wake = 0]
    /\ UNCHANGED <<extVars, backendVars, limiterVars, jobVars, stop, storeVars, now, call, histVars,
                   pq, pqPriority, pqPhase, pqGrants, pqScene>>

\* executeJob: the task returns and the deferred RegisterDone runs.
QueueFinish(i) ==
    /\ pqPhase[i] = "executing"
    /\ pqPhase' = [pqPhase EXCEPT ![i] = "done"]
    /\ lsState' = LocalRegisterDone(lsState, lsClosed, lopts.ID, DefaultWeight).state
    /\ UNCHANGED <<extVars, backendVars, limiterVars, jobVars, stop, lsClosed, now, call, histVars,
                   pq, pqPriority, pqSched, pqGrants, pqScene>>

QueueNext ==
    \/ \E i \in Items, p \in QueuePriorities : QueueSubmit(i, p)
    \/ QueuePop
    \/ QueueRequest
    \/ QueueReenqueue
    \/ QueueWakeUp
    \/ \E i \in Items : QueueFinish(i)
    \/ ClockTick

\* NewLimiter(Options{ID: "a", MaxConcurrent: m, MinTime: t}) has returned.
QueueInit == Init /\ opts.ID = "a" /\ opts.Datastore = "nil"

SpecQueue == QueueInit /\ [][QueueNext]_vars

(***************************************************************************)
(* The same limiter with the worker goroutines apart from the dispatcher:  *)
(* processJobs launches executeJob with a go statement, and the goroutine  *)
(* enters job.Task() when the runtime schedules it. Jobs are submitted     *)
(* with Schedule.                                                          *)
(***************************************************************************)
\* processJobs: l.datastore.Request and the branch on its results; on a grant,
\* go l.executeJob(job).
StartsRequest ==
    /\ pqSched.pc = "request"
    /\ LET i == pqSched.job
           r == LocalRequest(lsState, lsClosed, lopts.ID, DefaultWeight, lopts, now)
       IN  /\ lsState' = r.state
           /\ IF r.err # "nil"
              THEN /\ pqSched' = [pqSched EXCEPT !.pc = "select", !.job = 0]
                   /\ pqPhase' = [pqPhase EXCEPT ![i] = "done"]
                   /\ UNCHANGED <<pqGrants, grantAt>>
              ELSE IF ~r.canRun
              THEN /\ pqSched' = [pqSched EXCEPT !.pc = "repush", !.wait = r.waitTime]
                   /\ UNCHANGED <<pqPhase, pqGrants, grantAt>>
              ELSE /\ pqSched' = [pqSched EXCEPT !.pc = "select", !.job = 0]
                   /\ pqPhase' = [pqPhase EXCEPT ![i] = "launched"]
                   /\ pqGrants' = Append(pqGrants, i)
                   /\ grantAt' = [grantAt EXCEPT ![i] = now]
    /\ UNCHANGED <<releaseErr, rScripts, leakVars, mutexVars, weightVars, startAt, backendVars, limiterVars, jobVars,
                   stop, lsClosed, now, call, histVars, pq, pqPriority, pqScene>>

\* executeJob: result, err := job.Task() is entered.
StartsInvoke(i) ==
    /\ pqPhase[i] = "launched"
    /\ pqPhase' = [pqPhase EXCEPT ![i] = "executing"]
    /\ startAt' = [startAt EXCEPT ![i] = now]
    /\ UNCHANGED <<releaseErr, rScripts, leakVars, mutexVars, weightVars, grantAt, backendVars, limiterVars, jobVars,
                   stop, storeVars, now, call, histVars, pq, pqPriority, pqSched, pqGrants,
                   pqScene>>

StartsNext ==
    \/ \E i \in Items : QueueSubmit(i, DefaultPriority)
    \/ QueuePop
    \/ StartsRequest
    \/ QueueReenqueue
    \/ QueueWakeUp
    \/ \E i \in Items : StartsInvoke(i)
    \/ \E i \in Items : QueueFinish(i)
    \/ ClockTick

SpecStarts == QueueInit /\ [][StartsNext]_vars

(***************************************************************************)
(* The dispatch order with jobs of different weights: the limiter with     *)
(* three calls of ScheduleWithOptions, each with a priority and a weight   *)
(* of its own, running on its own LocalStore without Stop.                 *)
(***************************************************************************)
NWeighted == 3      \* calls of ScheduleWithOptions in the model with weights
WeightedItems == 1..NWeighted

\* ScheduleWithOptions(task, p, w) up to l.queue.PushJob(job).
WeightedSubmit(i, p, w) ==
    /\ pqPhase[i] = "new"
    /\ \A k \in 1..(i - 1) : pqPhase[k] # "new"
    /\ ~InvalidWeight(w)
    /\ pqPriority' = [pqPriority EXCEPT ![i] = p]
    /\ pqWeight' = [pqWeight EXCEPT ![i] = w]
    /\ pq' = PushJob(pqPriority', pq, i)
    /\ pqPhase' = [pqPhase EXCEPT ![i] = "queued"]
    /\ UNCHANGED <<releaseErr, rScripts, leakVars, timingVars, mutexVars, pqDenied, backendVars,
                   limiterVars, jobVars, stop, storeVars, now, call, histVars, pqSched,
                   pqGrants, pqScene>>

\* processJobs: l.datastore.Request(l.opts.ID, job.Weight, l.opts) and the
\* branch on its results.
WeightedRequest ==
    /\ pqSched.pc = "request"
    /\ LET i == pqSched.job
           r == LocalRequest(lsState, lsClosed, lopts.ID, pqWeight[i], lopts, now)
       IN  /\ lsState' = r.state
           /\ IF r.err # "nil"
              THEN /\ pqSched' = [pqSched EXCEPT !.pc = "select", !.job = 0]
                   /\ pqPhase' = [pqPhase EXCEPT ![i] = "done"]
                   /\ UNCHANGED <<pqGrants, pqDenied>>
              ELSE IF ~r.canRun
              THEN /\ pqSched' = [pqSched EXCEPT !.pc = "repush", !.wait = r.waitTime]
                   /\ pqDenied' = pqDenied \cup {i}
                   /\ UNCHANGED <<pqPhase, pqGrants>>
              ELSE /\ pqSched' = [pqSched EXCEPT !.pc = "select", !.job = 0]
                   /\ pqPhase' = [pqPhase EXCEPT ![i] = "executing"]
                   /\ pqGrants' = Append(pqGrants, i)
                   /\ UNCHANGED pqDenied
    /\ UNCHANGED <<releaseErr, rScripts, leakVars, timingVars, mutexVars, pqWeight, backendVars,
                   limiterVars, jobVars, stop, lsClosed, now, call, histVars, pq, pqPriority,
                   pqScene>>

\* executeJob: the task returns and the deferred
\* l.datastore.RegisterDone(l.opts.ID, job.Weight) runs.
WeightedFinish(i) ==
    /\ pqPhase[i] = "executing"
    /\ pqPhase' = [pqPhase EXCEPT ![i] = "done"]
    /\ lsState' = LocalRegisterDone(lsState, lsClosed, lopts.ID, pqWeight[i]).state
    /\ UNCHANGED <<extVars, backendVars, limiterVars, jobVars, stop, lsClosed, now, call, histVars,
                   pq, pqPriority, pqSched, pqGrants, pqScene>>

\* The scheduler goroutine: whichever step of processJobs it is at.
WeightedDispatch == QueuePop \/ WeightedRequest \/ QueueReenqueue \/ QueueWakeUp

WeightedNext ==
    \/ \E i \in WeightedItems, p \in Priorities, w \in DirectWeights : WeightedSubmit(i, p, w)
    \/ WeightedDispatch
    \/ \E i \in WeightedItems : WeightedFinish(i)
    \/ ClockTick

\* The ticker fires and the scheduler goroutine runs; every job's work
\* returns; time passes. Nobody is bound to submit.
WeightedFairness ==
    /\ WF_vars(WeightedDispatch)
    /\ \A i \in WeightedItems : WF_vars(WeightedFinish(i))
    /\ WF_vars(ClockTick)

SpecWeighted == QueueInit /\ [][WeightedNext]_vars /\ WeightedFairness

(***************************************************************************)
(* The limiter with Limiter.mu explicit. Every Lock, RLock, Unlock and     *)
(* RUnlock of limiter.go is placed where the code has it; a heap           *)
(* operation, a backend call, a sleep and a job's work each last from the  *)
(* step that enters them to the step that leaves them. Deliveries over the *)
(* job channels are left out: they take no lock and touch no queue.        *)
(***************************************************************************)
NoGoroutine == <<"none", 0>>
Submitter(j) == <<"sub", j>>
Dispatcher == <<"disp", 0>>
Stopper(s) == <<"stop", s>>
Worker(j) == <<"work", j>>

Goroutines ==
    {Submitter(j) : j \in Jobs} \cup {Dispatcher} \cup {Stopper(s) : s \in Stoppers}
        \cup {Worker(j) : j \in Jobs}

CanLock_IgnoresReaders(m) == m.w = NoGoroutine

\* l.mu.Lock() returns when no goroutine holds the mutex in either mode.
CanLock(m) == m.w = NoGoroutine /\ m.r = {}

\* l.mu.RLock() returns when no goroutine holds the mutex in write mode.
CanRLock(m) == m.w = NoGoroutine

Lock(m, g) == [m EXCEPT !.w = g]
Unlock(m, g) == [m EXCEPT !.w = NoGoroutine]
RLock(m, g) == [m EXCEPT !.r = @ \cup {g}]
RUnlock(m, g) == [m EXCEPT !.r = @ \ {g}]

AfterPop_StillLocked(m, g) == m

\* l.mu.RUnlock() of processJobs after the pop, before the Request.
AfterPop(m, g) == RUnlock(m, g)

\* What no step of this model changes.
mutexFrame ==
    <<releaseErr, rScripts, leakVars, timingVars, weightVars, queueVars, backendVars, opts, lim, lopts,
      datastore, sched, schedulers, sub, ret, resultChan, errorChan, worker, stop, call,
      histVars>>

\* ScheduleWithOptions: l.mu.Lock()
MutexSubmitLock(j, priority, weight) ==
    /\ lim = "ok"
    /\ mSub[j] = "idle"
    /\ \A k \in Jobs : k < j => mSub[k] # "idle"
    /\ CanLock(mu)
    /\ mu' = Lock(mu, Submitter(j))
    /\ mSub' = [mSub EXCEPT ![j] = "locked"]
    /\ jPriority' = [jPriority EXCEPT ![j] = priority]
    /\ jWeight' = [jWeight EXCEPT ![j] = weight]
    /\ UNCHANGED <<mutexFrame, mDisp, mStop, mWork, running, stopCloses, wg, queue, storeVars,
                   now>>

\* ScheduleWithOptions: if !l.running { l.mu.Unlock(); return }, else PushJob begins.
MutexSubmitCheck(j) ==
    /\ mSub[j] = "locked"
    /\ IF RejectsSubmission(running)
       THEN /\ mu' = Unlock(mu, Submitter(j))
            /\ mSub' = [mSub EXCEPT ![j] = "returned"]
       ELSE /\ mSub' = [mSub EXCEPT ![j] = "pushing"]
            /\ UNCHANGED mu
    /\ UNCHANGED <<mutexFrame, mDisp, mStop, mWork, running, stopCloses, wg, queue, jPriority,
                   jWeight, storeVars, now>>

\* ScheduleWithOptions: l.queue.PushJob(job) returns; l.mu.Unlock(); the call
\* waits on the job's channels.
MutexSubmitPush(j) ==
    /\ mSub[j] = "pushing"
    /\ queue' = PushJob(jPriority, queue, j)
    /\ mu' = Unlock(mu, Submitter(j))
    /\ mSub' = [mSub EXCEPT ![j] = "waiting"]
    /\ UNCHANGED <<mutexFrame, mDisp, mStop, mWork, running, stopCloses, wg, jPriority, jWeight,
                   storeVars, now>>

\* case <-ticker.C: processJobs, l.mu.RLock()
MutexTickRLock ==
    /\ lim = "ok"
    /\ mDisp.pc = "select"
    /\ CanRLock(mu)
    /\ mu' = RLock(mu, Dispatcher)
    /\ mDisp' = [mDisp EXCEPT !.pc = "rlocked"]
    /\ UNCHANGED <<mutexFrame, mSub, mStop, mWork, running, stopCloses, wg, queue, jPriority,
                   jWeight, storeVars, now>>

\* processJobs: if l.queue.IsEmpty() || !l.running { l.mu.RUnlock(); return },
\* else PopJob begins.
MutexTickCheck ==
    /\ mDisp.pc = "rlocked"
    /\ IF SkipsTick(queue, running)
       THEN /\ mu' = RUnlock(mu, Dispatcher)
            /\ mDisp' = [mDisp EXCEPT !.pc = "select"]
       ELSE /\ mDisp' = [mDisp EXCEPT !.pc = "popping"]
            /\ UNCHANGED mu
    /\ UNCHANGED <<mutexFrame, mSub, mStop, mWork, running, stopCloses, wg, queue, jPriority,
                   jWeight, storeVars, now>>

\* processJobs: l.queue.PopJob() returns; l.mu.RUnlock(); the Request is entered.
MutexTickPop ==
    /\ mDisp.pc = "popping"
    /\ mDisp' = [mDisp EXCEPT !.pc = "request", !.job = PopJobResult(jPriority, queue)]
    /\ queue' = PopJobRest(jPriority, queue)
    /\ mu' = AfterPop(mu, Dispatcher)
    /\ UNCHANGED <<mutexFrame, mSub, mStop, mWork, running, stopCloses, wg, jPriority, jWeight,
                   storeVars, now>>

\* processJobs: l.datastore.Request returns. On an error the job gets it and
\* processJobs returns; on a denial processJobs goes on to l.mu.Lock(); on a
\* grant, go l.executeJob(job).
MutexRequestReturns ==
    /\ mDisp.pc = "request"
    /\ LET j == mDisp.job
           r == LocalRequest(lsState, lsClosed, lopts.ID, jWeight[j], lopts, now)
       IN  /\ lsState' = r.state
           /\ IF r.err # "nil"
              THEN /\ mDisp' = [mDisp EXCEPT !.pc = "select", !.job = 0]
                   /\ mSub' = [mSub EXCEPT ![j] = "returned"]
                   /\ UNCHANGED mWork
              ELSE IF ~r.canRun
              THEN /\ mDisp' = [mDisp EXCEPT !.pc = "wantlock", !.wait = r.waitTime]
                   /\ UNCHANGED <<mSub, mWork>>
              ELSE /\ mDisp' = [mDisp EXCEPT !.pc = "select", !.job = 0]
                   /\ mWork' = [mWork EXCEPT ![j] = "launched"]
                   /\ UNCHANGED mSub
    /\ UNCHANGED <<mutexFrame, mu, mStop, running, stopCloses, wg, queue, jPriority, jWeight,
                   lsClosed, now>>

\* processJobs: l.mu.Lock() before the denied job is pushed back; PushJob begins.
MutexRepushLock ==
    /\ mDisp.pc = "wantlock"
    /\ CanLock(mu)
    /\ mu' = Lock(mu, Dispatcher)
    /\ mDisp' = [mDisp EXCEPT !.pc = "repushing"]
    /\ UNCHANGED <<mutexFrame, mSub, mStop, mWork, running, stopCloses, wg, queue, jPriority,
                   jWeight, storeVars, now>>

\* processJobs: l.queue.PushJob(job) returns; l.mu.Unlock(); then the sleep,
\* when a wait was suggested.
MutexRepush ==
    /\ mDisp.pc = "repushing"
    /\ queue' = PushJob(jPriority, queue, mDisp.job)
    /\ mu' = Unlock(mu, Dispatcher)
    /\ mDisp' = IF mDisp.wait > 0
                THEN [mDisp EXCEPT !.pc = "sleep", !.job = 0,
                                   !.wake = Min(now + mDisp.wait, MaxTime)]
                ELSE [mDisp EXCEPT !.pc = "select", !.job = 0, !.wait = 0]
    /\ UNCHANGED <<mutexFrame, mSub, mStop, mWork, running, stopCloses, wg, jPriority, jWeight,
                   storeVars, now>>

\* time.Sleep(waitTime) returns.
MutexWakeUp ==
    /\ mDisp.pc = "sleep"
    /\ now >= mDisp.wake
    /\ mDisp' = [mDisp EXCEPT !.pc = "select", !.wait = 0, !.wake = 0]
    /\ UNCHANGED <<mutexFrame, mu, mSub, mStop, mWork, running, stopCloses, wg, queue, jPriority,
                   jWeight, storeVars, now>>

\* case <-l.stopCh: processRemainingJobs, l.mu.RLock() of its loop.
MutexDrainRLock ==
    /\ mDisp.pc \in {"select", "drain"}
    /\ stopCloses > 0
    /\ CanRLock(mu)
    /\ mu' = RLock(mu, Dispatcher)
    /\ mDisp' = [mDisp EXCEPT !.pc = "drlocked"]
    /\ UNCHANGED <<mutexFrame, mSub, mStop, mWork, running, stopCloses, wg, queue, jPriority,
                   jWeight, storeVars, now>>

\* processRemainingJobs: if l.queue.IsEmpty() { l.mu.RUnlock(); break } and the
\* scheduler returns (wg.Done()), else PopJob begins.
MutexDrainCheck ==
    /\ mDisp.pc = "drlocked"
    /\ IF DrainFinished(queue)
       THEN /\ mu' = RUnlock(mu, Dispatcher)
            /\ mDisp' = [mDisp EXCEPT !.pc = "exited"]
            /\ wg' = wg - 1
       ELSE /\ mDisp' = [mDisp EXCEPT !.pc = "drpopping"]
            /\ UNCHANGED <<mu, wg>>
    /\ UNCHANGED <<mutexFrame, mSub, mStop, mWork, running, stopCloses, queue, jPriority,
                   jWeight, storeVars, now>>

\* processRemainingJobs: l.queue.PopJob() returns; l.mu.RUnlock(); the job
\* gets ErrStoreClosed.
MutexDrainPop ==
    /\ mDisp.pc = "drpopping"
    /\ queue' = PopJobRest(jPriority, queue)
    /\ mu' = RUnlock(mu, Dispatcher)
    /\ mSub' = [mSub EXCEPT ![PopJobResult(jPriority, queue)] = "returned"]
    /\ mDisp' = [mDisp EXCEPT !.pc = "drain"]
    /\ UNCHANGED <<mutexFrame, mStop, mWork, running, stopCloses, wg, jPriority, jWeight,
                   storeVars, now>>

\* executeJob: job.Task() is entered.
MutexInvokeTask(j) ==
    /\ mWork[j] = "launched"
    /\ mWork' = [mWork EXCEPT ![j] = "executing"]
    /\ UNCHANGED <<mutexFrame, mu, mSub, mDisp, mStop, running, stopCloses, wg, queue, jPriority,
                   jWeight, storeVars, now>>

\* executeJob: job.Task() returns, the outcome is sent (the submitter returns)
\* and the deferred RegisterDone is entered.
MutexTaskReturns(j) ==
    /\ mWork[j] = "executing"
    /\ mWork' = [mWork EXCEPT ![j] = "releasing"]
    /\ mSub' = [mSub EXCEPT ![j] = "returned"]
    /\ UNCHANGED <<mutexFrame, mu, mDisp, mStop, running, stopCloses, wg, queue, jPriority,
                   jWeight, storeVars, now>>

\* executeJob: l.datastore.RegisterDone returns.
MutexRegisterDoneReturns(j) ==
    /\ mWork[j] = "releasing"
    /\ mWork' = [mWork EXCEPT ![j] = "done"]
    /\ lsState' = LocalRegisterDone(lsState, lsClosed, lopts.ID, jWeight[j]).state
    /\ UNCHANGED <<mutexFrame, mu, mSub, mDisp, mStop, running, stopCloses, wg, queue, jPriority,
                   jWeight, lsClosed, now>>

\* Stop: l.mu.Lock()
MutexStopLock(s) ==
    /\ lim = "ok"
    /\ mStop[s] = "idle"
    /\ \A k \in Stoppers : k < s => mStop[k] # "idle"
    /\ CanLock(mu)
    /\ mu' = Lock(mu, Stopper(s))
    /\ mStop' = [mStop EXCEPT ![s] = "locked"]
    /\ UNCHANGED <<mutexFrame, mSub, mDisp, mWork, running, stopCloses, wg, queue, jPriority,
                   jWeight, storeVars, now>>

\* Stop: if !l.running { l.mu.Unlock(); return nil }, else the flag,
\* close(l.stopCh), l.mu.Unlock() and on to l.wg.Wait().
MutexStopFlag(s) ==
    /\ mStop[s] = "locked"
    /\ mu' = Unlock(mu, Stopper(s))
    /\ IF StopIsNoop(running)
       THEN /\ mStop' = [mStop EXCEPT ![s] = "returned"]
            /\ UNCHANGED <<running, stopCloses>>
       ELSE /\ running' = FALSE
            /\ stopCloses' = stopCloses + 1
            /\ mStop' = [mStop EXCEPT ![s] = "wait"]
    /\ UNCHANGED <<mutexFrame, mSub, mDisp, mWork, wg, queue, jPriority, jWeight, storeVars,
                   now>>

\* Stop: l.wg.Wait() returns and l.datastore.Disconnect() is entered.
MutexStopWaitReturns(s) ==
    /\ mStop[s] = "wait"
    /\ WaitGroupDone(wg)
    /\ mStop' = [mStop EXCEPT ![s] = "disconnect"]
    /\ UNCHANGED <<mutexFrame, mu, mSub, mDisp, mWork, running, stopCloses, wg, queue, jPriority,
                   jWeight, storeVars, now>>

\* Stop: l.datastore.Disconnect() returns, and Stop with it.
MutexDisconnectReturns(s) ==
    /\ mStop[s] = "disconnect"
    /\ lsClosed' = TRUE
    /\ lsState' = EmptyLocalMap
    /\ mStop' = [mStop EXCEPT ![s] = "returned"]
    /\ UNCHANGED <<mutexFrame, mu, mSub, mDisp, mWork, running, stopCloses, wg, queue, jPriority,
                   jWeight, now>>

MutexNext ==
    \/ NewLimiter
    \/ \E j \in Jobs, p \in Priorities, w \in DirectWeights : MutexSubmitLock(j, p, w)
    \/ \E j \in Jobs : MutexSubmitCheck(j)
    \/ \E j \in Jobs : MutexSubmitPush(j)
    \/ MutexTickRLock
    \/ MutexTickCheck
    \/ MutexTickPop
    \/ MutexRequestReturns
    \/ MutexRepushLock
    \/ MutexRepush
    \/ MutexWakeUp
    \/ MutexDrainRLock
    \/ MutexDrainCheck
    \/ MutexDrainPop
    \/ \E j \in Jobs : MutexInvokeTask(j)
    \/ \E j \in Jobs : MutexTaskReturns(j)
    \/ \E j \in Jobs : MutexRegisterDoneReturns(j)
    \/ \E s \in Stoppers : MutexStopLock(s)
    \/ \E s \in Stoppers : MutexStopFlag(s)
    \/ \E s \in Stoppers : MutexStopWaitReturns(s)
    \/ \E s \in Stoppers : MutexDisconnectReturns(s)
    \/ ClockTick

\* NewLimiter(Options{ID: "a", MaxConcurrent: m, MinTime: t}) is still to be called.
MutexInit == Init /\ opts.ID = "a" /\ opts.Datastore = "nil"

SpecMutex == MutexInit /\ [][MutexNext]_vars

(***************************************************************************)
(* The limiter under fair scheduling. A step of a goroutine that can run   *)
(* (the scheduler past its select, a worker, a caller whose channel holds  *)
(* a message, a Stop whose wait is over), or of the clock, is eventually   *)
(* taken: launched work returns and time passes. New calls, idle ticks     *)
(* and the store's owner are under no obligation.                          *)
(***************************************************************************)
Progress ==
    \/ TickPop \/ RequestAdmission \/ SendDatastoreError \/ Reenqueue \/ WakeUp
    \/ ObserveStop \/ DrainPop \/ DrainSend \/ DrainExit
    \/ \E j \in Jobs : InvokeTask(j)
    \/ \E j \in Jobs, ok \in BOOLEAN : TaskReturns(j, ok)
    \/ \E j \in Jobs : RegisterDone(j)
    \/ \E j \in Jobs : ReceiveResult(j)
    \/ \E j \in Jobs : ReceiveError(j)
    \/ \E s \in Stoppers : StopFinish(s)
    \/ ClockTick

Fairness == WF_vars(Progress)

\* The limiters on a store handed to NewLimiter: what a limiter does on its own
\* store it does on a supplied one whose owner never disconnects it, under
\* either ID.
FairInit == Init /\ opts.ID = "a" /\ opts.Datastore = "store"

\* Those of them that limit concurrency: with MaxConcurrent = 0 no Request is
\* ever denied for the running weight and a job waits for MinTime only.
FairLimitedInit == FairInit /\ opts.MaxConcurrent > 0

FairSpec == FairLimitedInit /\ [][Next]_vars /\ Fairness

\* The same limiters with MaxConcurrent = 1, the cap that a weight of the
\* model can exceed.
FairCappedInit == FairInit /\ opts.MaxConcurrent = 1

FairSpecCapped == FairCappedInit /\ [][Next]_vars /\ Fairness

\* The executeJob goroutine of job j: whichever step it is at.
WorkerProgress(j) ==
    InvokeTask(j) \/ (\E ok \in BOOLEAN : TaskReturns(j, ok)) \/ RegisterDone(j)

\* The runtime schedules every executeJob goroutine, whatever the scheduler
\* goroutine does meanwhile, and the work of every job returns.
WorkerFairness == \A j \in Jobs : WF_vars(WorkerProgress(j))

\* The limiters of FairInit with room for a job of weight 2 or for two jobs
\* of weight 1.
WorkersInit == FairInit /\ opts.MaxConcurrent = 2 /\ opts.MinTime = 2

FairSpecWorkers == WorkersInit /\ [][Next]_vars /\ Fairness /\ WorkerFairness

(***************************************************************************)
(* Properties.                                                             *)
(***************************************************************************)
RECURSIVE SumWeights(_)
SumWeights(S) ==
    IF S = {} THEN 0
    ELSE LET j == CHOOSE x \in S : TRUE IN jWeight[j] + SumWeights(S \ {j})

\* The jobs whose work function is executing.
Executing == {j \in Jobs : worker[j] = "executing"}

\* The job's call passed the weight and running checks and pushed the job.
Enqueued(j) == sub[j] = "waiting" \/ (sub[j] = "returned" /\ sentResult[j] + sentError[j] > 0)

\* C1: with MaxConcurrent > 0 and the limiter's own LocalStore, the weights of
\* the jobs whose work function is executing sum to at most MaxConcurrent, in
\* every reachable state.
C1_ExecutingWeightCapped ==
    (datastore = "own" /\ lopts.MaxConcurrent > 0)
        => SumWeights(Executing) <= lopts.MaxConcurrent

\* Two jobs execute at once and fill the cap exactly.
C1_Witness ==
    /\ datastore = "own"
    /\ lopts.MaxConcurrent = 2
    /\ Cardinality(Executing) = 2
    /\ SumWeights(Executing) = 2

\* C2: with MinTime > 0, a granted Request of a direct caller comes at least
\* MinTime after the previous granted Request for the same ID, whatever calls
\* came between them.
C2_GrantsSpaced ==
    (call.op = "Request" /\ call.canRun /\ call.prevGrant # 0 /\ opts.MinTime > 0)
        => call.at - call.prevGrant >= opts.MinTime

\* A second grant for an ID, MinTime after the first one; the store holds the
\* weight of both.
C2_Witness ==
    /\ opts.MinTime = 2
    /\ call.op = "Request" /\ call.canRun
    /\ call.prevGrant = 1 /\ call.at = 3
    /\ lsState[call.id].running = 3

\* C3: a job gets at most one message over its two channels together, no send
\* finds a channel full (the worker's non-blocking send never takes its default
\* case, the scheduler's blocking sends never block), and a call that was
\* enqueued and has returned got exactly that one message.
C3_OneMessagePerJob ==
    /\ ~fullSend
    /\ sched.pc \in {"senderr", "drainsend"} => Len(errorChan[sched.job]) = 0
    /\ \A j \in Jobs :
        /\ sentResult[j] + sentError[j] <= 1
        /\ Len(resultChan[j]) + Len(errorChan[j]) <= 1
        /\ (sub[j] = "returned" /\ ret[j] \notin {"ErrInvalidWeight", "ErrStoreClosed"})
               => /\ sentResult[j] + sentError[j] = 1
                  /\ Len(resultChan[j]) + Len(errorChan[j]) = 0
                  /\ (ret[j] = "value") = (sentResult[j] = 1)
        /\ (sub[j] = "returned" /\ ret[j] = "ErrStoreClosed")
               => Len(resultChan[j]) + Len(errorChan[j]) = 0

\* One call returned its work's value, another the error of its work.
C3_Witness ==
    \E j, k \in Jobs :
        /\ sub[j] = "returned" /\ ret[j] = "value" /\ sentResult[j] = 1
        /\ sub[k] = "returned" /\ ret[k] = "task error" /\ sentError[k] = 1

\* The jobs in the queue, with the one processRemainingJobs has popped and
\* not yet failed.
QueuedJobs ==
    {queue[i] : i \in 1..Len(queue)}
        \cup (IF sched.pc = "drainsend" THEN {sched.job} ELSE {})

\* The scheduler holds a job whose Request would be granted now.
GrantEnabled ==
    /\ sched.pc = "request"
    /\ LocalRequest(lsState, lsClosed, lopts.ID, jWeight[sched.job], lopts, now).canRun

\* C4: once any call of Stop has returned, no grant can follow and no queued
\* job is left without its ErrStoreClosed; for every call of Stop, also one
\* made while another is in progress.
C4_AfterAnyStopReturns ==
    (\E s \in Stoppers : stop[s] = "returned")
        => (~GrantEnabled /\ QueuedJobs = {})

\* C4 for the calls of Stop that cleared the running flag themselves.
C4_AfterFlippingStopReturns ==
    (\E s \in Stoppers : stop[s] = "returned" /\ ~lateStop[s])
        => (~GrantEnabled /\ QueuedJobs = {} /\ sched.pc = "exited")

\* C5 as stated: an enqueued call returns only after a grant or after Stop.
C5_OnlyStopUnblocks ==
    \A j \in Jobs :
        (sub[j] = "returned" /\ Enqueued(j)) => (worker[j] # "none" \/ stopCloses > 0)

\* C5, amended: once Stop was called every enqueued call returns; a job queued
\* when the scheduler took the stop case returns ErrStoreClosed, a launched job
\* its work's outcome; and an enqueued call returns only after a grant, after
\* Stop, or with the error of a failed Request.
C5_StopUnblocksEveryCall ==
    /\ (stopCloses > 0) ~> (\A j \in Jobs : sub[j] # "waiting")
    /\ [](\A j \in Jobs :
            /\ (sub[j] = "returned" /\ j \in atStop) => ret[j] = "ErrStoreClosed"
            /\ (sub[j] = "returned" /\ worker[j] # "none") => ret[j] \in {"value", "task error"}
            /\ (sub[j] = "returned" /\ Enqueued(j))
                   => \/ worker[j] # "none"
                      \/ stopCloses > 0
                      \/ ret[j] = "datastore error")

\* After Stop, one queued call got ErrStoreClosed and one launched call its value.
C5_Witness ==
    \E j, k \in Jobs :
        /\ stopCloses > 0
        /\ j \in atStop /\ sub[j] = "returned" /\ ret[j] = "ErrStoreClosed"
        /\ k \notin atStop /\ sub[k] = "returned" /\ ret[k] = "value"

\* A call of Schedule/ScheduleWithOptions for slot j takes its first step.
CallStep(j) == sub[j] = "idle" /\ sub'[j] # "idle"

\* C6 as stated: with the running flag cleared, every call returns
\* ErrStoreClosed and enqueues nothing.
C6_EveryLateCallGetsStoreClosed ==
    [][\A j \in Jobs :
        (CallStep(j) /\ ~running)
            => (sub'[j] = "returned" /\ ret'[j] = "ErrStoreClosed" /\ queue' = queue)]_vars

\* C6, amended: with the running flag cleared, a call with weight > 0 returns
\* ErrStoreClosed (one with weight <= 0 returns ErrInvalidWeight); neither
\* enqueues a job, no submitter pushes once the flag is cleared, and the work
\* of a rejected call never runs.
C6_LateCallsRejected ==
    /\ [][\A j \in Jobs :
            (CallStep(j) /\ ~running)
                => /\ sub'[j] = "returned"
                   /\ ret'[j] = IF jWeight'[j] > 0 THEN "ErrStoreClosed" ELSE "ErrInvalidWeight"
                   /\ queue' = queue
                   /\ worker' = worker]_vars
    /\ [][(~running /\ queue' # queue /\ Len(queue') > Len(queue))
            => sched.pc = "repush"]_vars
    /\ [](\A j \in Jobs :
            (sub[j] = "returned" /\ ~Enqueued(j)) => worker[j] = "none")

\* After Stop, a call with a valid weight was rejected with ErrStoreClosed.
C6_Witness ==
    \E j \in Jobs :
        /\ ~running /\ stopCloses > 0
        /\ sub[j] = "returned" /\ ret[j] = "ErrStoreClosed" /\ sentError[j] = 0
        /\ jWeight[j] > 0

\* C7: Stop is idempotent. The stop channel is closed once and Disconnect is
\* called once however many calls of Stop there are; and a call of Stop that
\* finds the running flag cleared returns at once and changes nothing.
C7_StopIdempotent ==
    /\ [](/\ stopCloses <= 1
          /\ disconnects <= 1
          /\ \A s \in Stoppers :
                (stop[s] = "returned" /\ ~lateStop[s])
                    => (stopCloses = 1 /\ disconnects = 1))
    /\ [][\A s \in Stoppers :
            (stop[s] = "idle" /\ stop'[s] # "idle" /\ ~running)
                => /\ stop'[s] = "returned"
                   /\ UNCHANGED <<limiterVars, jobVars, storeVars, now, call, sentResult,
                                  sentError, fullSend, disconnects, atStop, requested, lastGrant>>]_vars

\* Two calls of Stop returned, the second one found the flag cleared.
C7_Witness ==
    /\ \A s \in Stoppers : stop[s] = "returned"
    /\ \E s \in Stoppers : lateStop[s]
    /\ \E s \in Stoppers : ~lateStop[s]
    /\ stopCloses = 1 /\ disconnects = 1

\* C8 as stated: for a job that is in the queue when the scheduler takes the
\* stop case no worker is launched, no Request is issued, and its call
\* returns ErrStoreClosed only.
C8_DrainedNeverRequested ==
    \A j \in atStop :
        /\ worker[j] = "none"
        /\ j \notin requested
        /\ ret[j] \in {"none", "ErrStoreClosed"}

\* C8, amended: a job that is in the queue when the scheduler takes the stop
\* case is not executed: no Request is issued for it from then on (it may
\* have been denied before), no worker is launched for it (so no work and no
\* RegisterDone), nothing is sent on its result channel, and its call returns
\* ErrStoreClosed only.
C8_DrainedNeverExecuted ==
    \A j \in atStop :
        /\ worker[j] = "none"
        /\ sentResult[j] = 0
        /\ ~(sched.pc \in {"request", "senderr", "repush"} /\ sched.job = j)
        /\ ret[j] \in {"none", "ErrStoreClosed"}
        /\ sub[j] = "returned" => ret[j] = "ErrStoreClosed"

\* Two jobs were queued at the stop case, one of them denied before, and both
\* calls returned ErrStoreClosed.
C8_Witness ==
    /\ Cardinality(atStop) = 2
    /\ atStop \cap requested # {}
    /\ \A j \in atStop : sub[j] = "returned" /\ ret[j] = "ErrStoreClosed"
    /\ sched.pc = "exited"

\* C9: ScheduleWithOptions with weight <= 0 returns ErrInvalidWeight at once,
\* running or stopped, and changes nothing but the caller's own result.
C9_InvalidWeightRejected ==
    [][\A j \in Jobs :
        (CallStep(j) /\ jWeight'[j] <= 0)
            => /\ sub'[j] = "returned"
               /\ ret'[j] = "ErrInvalidWeight"
               /\ UNCHANGED <<limiterVars, jPriority, resultChan, errorChan, worker, stop,
                              storeVars, now, call, histVars>>]_vars

\* After Stop, a call was rejected with ErrStoreClosed and a later one, with
\* weight 0, with ErrInvalidWeight; no job was ever queued.
C9_Witness ==
    /\ NJobs >= 2
    /\ ~running /\ stopCloses > 0
    /\ ret[1] = "ErrStoreClosed" /\ sentError[1] = 0
    /\ ret[2] = "ErrInvalidWeight" /\ jWeight[2] = 0

\* C10: NewLimiter with a Datastore and an empty ID returns ErrMissingID and
\* starts no scheduler; with a nil Datastore it succeeds, takes a fresh
\* LocalStore, sets the ID to "default" only when it was empty, and returns
\* with exactly one scheduler running.
C10_NewLimiter ==
    /\ [](lim # "new" =>
            /\ (lim = "ErrMissingID") = (opts.Datastore # "nil" /\ opts.ID = "")
            /\ lim = "ErrMissingID" => (schedulers = 0 /\ sched.pc = "none" /\ ~running)
            /\ opts.Datastore = "nil" =>
                /\ lim = "ok"
                /\ datastore = "own"
                /\ lopts = [opts EXCEPT !.ID = IF opts.ID = "" THEN "default" ELSE opts.ID]
            /\ lim = "ok" => schedulers = 1)
    /\ [][(lim = "new" /\ lim' = "ok")
            => /\ running' /\ sched'.pc = "select" /\ wg' = 1 /\ schedulers' = 1
               /\ IsEmpty(queue')
               /\ opts.Datastore = "nil" => (lsState' = EmptyLocalMap /\ ~lsClosed')]_vars

\* A limiter built with no Datastore and no ID runs under the ID "default".
C10_Witness ==
    /\ lim = "ok" /\ opts.Datastore = "nil" /\ opts.ID = ""
    /\ lopts.ID = "default" /\ running /\ sched.pc = "select"

\* The priorities of pqScene's items in the order they were granted.
SceneGrants == SelectSeq(pqGrants, LAMBDA i : i \in pqScene)

\* C11: the job processJobs pops has a priority greater than or equal to that
\* of every job left in the queue; and jobs of priorities 1, 10 and 5 that are
\* in the queue together while a job holds the only slot of MaxConcurrent = 1
\* are granted in the order 10, 5, 1.
C11_PopsHighestPriority ==
    /\ [][(pqSched.pc = "select" /\ pqSched'.pc = "request")
            => \A k \in Range(pq') : pqPriority[pqSched'.job] >= pqPriority[k]]_vars
    /\ [](\A n \in 1..Len(SceneGrants) :
            pqPriority[SceneGrants[n]] = <<10, 5, 1>>[n])

\* The three jobs waited together behind a fourth and were granted 10, 5, 1,
\* having been submitted in the order 1, 10, 5.
C11_Witness ==
    /\ Len(SceneGrants) = 3
    /\ Len(pqGrants) = 4
    /\ pqPriority[2] = 1 /\ pqPriority[3] = 10 /\ pqPriority[4] = 5

\* A step of LocalStore.Request by a direct caller of an open store.
OpenRequestStep == call'.op = "Request" /\ now' = now /\ ~lsClosed

\* C12: on an open LocalStore, Request returns (false, 0, nil) when
\* MaxConcurrent > 0 and running + weight > MaxConcurrent; otherwise
\* (false, MinTime - (now - lastStart), nil) when MinTime > 0, the ID was
\* granted before and now - lastStart < MinTime; otherwise (true, 0, nil) with
\* running increased by weight and lastStart set to now. A denial leaves
\* running and lastStart as they were.
C12_RequestResults ==
    [][OpenRequestStep =>
        LET id == call'.id
            w == call'.weight
            s == lsState[id]
            t == lsState'[id]
        IN  /\ call'.err = "nil"
            /\ IF opts.MaxConcurrent > 0 /\ s.running + w > opts.MaxConcurrent
               THEN /\ ~call'.canRun /\ call'.waitTime = 0
                    /\ t.running = s.running /\ t.lastStart = s.lastStart
               ELSE IF opts.MinTime > 0 /\ lastGrant[id] # 0 /\ now - s.lastStart < opts.MinTime
               THEN /\ ~call'.canRun /\ call'.waitTime = opts.MinTime - (now - s.lastStart)
                    /\ t.running = s.running /\ t.lastStart = s.lastStart
               ELSE /\ call'.canRun /\ call'.waitTime = 0
                    /\ t.running = s.running + w /\ t.lastStart = now]_vars

\* A Request that fails both checks was denied with no wait: the ID was granted
\* one tick ago under MinTime = 2 and holds the whole of MaxConcurrent = 2.
C12_Witness ==
    /\ ~lsClosed
    /\ call.op = "Request" /\ call.at = now /\ ~call.canRun /\ call.waitTime = 0
    /\ opts.MaxConcurrent = 2 /\ opts.MinTime = 2
    /\ lsState[call.id].running = 2
    /\ now - lsState[call.id].lastStart = 1

\* C13: with callers issuing Requests for one ID of one LocalStore at the
\* same time, running never exceeds MaxConcurrent when MaxConcurrent > 0, and
\* a granted Request comes at least MinTime after the one granted before it
\* for the same ID.
C13_ConcurrentRequestsAtomic ==
    /\ \A id \in IDs : opts.MaxConcurrent > 0 => lsState[id].running <= opts.MaxConcurrent
    /\ (call.op = "Request" /\ call.canRun /\ call.prevGrant # 0 /\ opts.MinTime > 0)
           => call.at - call.prevGrant >= opts.MinTime

\* One caller holds the only unit of MaxConcurrent = 1 while the other, inside
\* Request for the same ID, has just been denied.
C13_Witness ==
    /\ opts.MaxConcurrent = 1
    /\ cPc[1] = "holding" /\ cPc[2] = "unlock"
    /\ cLocal[1].id = cLocal[2].id
    /\ lsState[cLocal[1].id].running = 1
    /\ ~cLocal[2].canRun

\* Disconnect has run on the Datastore the direct caller holds.
Disconnected == (impl = "local" /\ lsClosed) \/ (impl = "redis" /\ rsClient = "nil")

\* A step of the named call by a direct caller of the Datastore.
DirectStep(op) == call'.op = op /\ now' = now

\* C14: once Disconnect has been called on a LocalStore or a RedisStore, every
\* later Request and RegisterDone on it returns ErrStoreClosed, grants nothing
\* and leaves the counters alone.
C14_ClosedStoreRejects ==
    [][/\ DirectStep("Disconnect") => Disconnected'
       /\ Disconnected => Disconnected'
       /\ (Disconnected /\ (DirectStep("Request") \/ DirectStep("RegisterDone")))
            => /\ call'.err = "ErrStoreClosed"
               /\ ~call'.canRun
               /\ UNCHANGED <<lsState, rKeys, lastGrant>>]_vars

\* A Request on a disconnected RedisStore got ErrStoreClosed while the server
\* still holds a granted weight under the key.
C14_Witness ==
    /\ impl = "redis" /\ rsClient = "nil"
    /\ call.op = "Request" /\ call.err = "ErrStoreClosed"
    /\ rKeys[call.id].running = 1

\* C16: in LocalStore running >= 0 for every ID in every reachable state, for
\* any sequence of Request and RegisterDone calls with positive weights, a
\* RegisterDone without a matching grant included.
C16_LocalRunningNonNegative ==
    \A id \in IDs : lsState[id].running >= 0

\* Under MaxConcurrent = 1 (running is at most 1) a RegisterDone of weight 2
\* was accepted for an ID that has a record: the decrement was clamped.
C16_Witness ==
    /\ opts.MaxConcurrent = 1
    /\ call.op = "RegisterDone" /\ call.weight = 2 /\ call.err = "nil"
    /\ lsState[call.id].exists
    /\ lsState[call.id].running = 0

\* C17: in the remote backend the running field of key gothrottle:<ID> is >= 0
\* in every reachable state, also after a RegisterDone that finds the key
\* expired or the counter smaller than the released weight.
C17_RemoteRunningNonNegative ==
    \A id \in IDs : RedisVisible(rKeys[id], now).running >= 0

\* C18: RegisterDone for an ID that has no state record is a no-op in both
\* backends: it returns nil, creates no record or key and leaves the state of
\* every ID as it was.
C18_RegisterDoneWithoutRecord ==
    [][(/\ DirectStep("RegisterDone")
        /\ ~Disconnected
        /\ \/ impl = "local" /\ ~lsState[call'.id].exists
           \/ impl = "redis" /\ ~RedisVisible(rKeys[call'.id], now).exists)
       => /\ call'.err = "nil"
          /\ lsState' = lsState
          /\ \A id \in IDs : RedisVisible(rKeys'[id], now) = RedisVisible(rKeys[id], now)]_vars

\* C18 for the LocalStore alone.
C18_LocalRegisterDoneWithoutRecord ==
    [][(DirectStep("RegisterDone") /\ impl = "local" /\ ~lsClosed /\ ~lsState[call'.id].exists)
       => (call'.err = "nil" /\ lsState' = lsState)]_vars

\* The running counter of id in the Datastore the limiters share.
RunningOf(id) ==
    IF impl = "local" THEN lsState[id].running ELSE RedisVisible(rKeys[id], now).running

\* No key has expired under a held grant: every job so far released its
\* weight before the expiry that its key was given at the latest grant.
ReleasedBeforeExpiry == ~keyLost /\ ~KeyExpiredUnderGrant

\* C15 as stated: on an open backend the running counter of an ID is the sum
\* of the weights granted and not yet released, whatever the interleaving of
\* grants and their matching RegisterDone calls; it is 0 when every grant has
\* been released.
C15_PairsLeaveRunningUnchanged ==
    \A id \in IDs : RunningOf(id) = Held(id)

\* C15, amended: the same on a LocalStore, and on a RedisStore as long as no
\* key has expired under a held grant.
C15_PairsLeaveRunningUnlessExpired ==
    \A id \in IDs :
        (impl = "local" \/ ReleasedBeforeExpiry) => RunningOf(id) = Held(id)

\* Two limiters hold weights 1 and 2 under one key of the RedisStore, one
\* grant a tick after the other, and the key has not expired.
C15_Witness ==
    /\ impl = "redis"
    /\ ReleasedBeforeExpiry
    /\ cPc[1] = "holding" /\ cPc[2] = "holding"
    /\ cLocal[1].id = cLocal[2].id
    /\ cLocal[1].weight = 1 /\ cLocal[2].weight = 2
    /\ cLocal[2].t = cLocal[1].t + 1
    /\ RunningOf(cLocal[1].id) = 3

\* A granted Request came at least MinTime after the grant before it for the
\* same ID.
LastGrantSpaced ==
    (call.op = "Request" /\ call.canRun /\ call.prevGrant # 0 /\ opts.MinTime > 0)
        => call.at - call.prevGrant >= opts.MinTime

\* C19 as stated: for limiters that share one ID of one remote store, the
\* weights of the jobs executing in all of them sum to at most MaxConcurrent
\* (so with MaxConcurrent = 1 a second job is granted only after the first
\* one's RegisterDone), and consecutive grants are at least MinTime apart.
C19_SharedRemoteLimits ==
    impl = "redis" =>
        /\ \A id \in IDs : opts.MaxConcurrent > 0 => Held(id) <= opts.MaxConcurrent
        /\ LastGrantSpaced

\* C19, amended: the cap holds as long as no key has expired under a held
\* grant, and the spacing holds for a MinTime that is no longer than the
\* key's expiry.
C19_SharedRemoteLimitsUnlessExpired ==
    impl = "redis" =>
        /\ \A id \in IDs : (opts.MaxConcurrent > 0 /\ ReleasedBeforeExpiry)
                               => Held(id) <= opts.MaxConcurrent
        /\ opts.MinTime <= KeyTTL => LastGrantSpaced

\* With MaxConcurrent = 1 and MinTime = 2 the second limiter was granted after
\* the release of the first grant and MinTime after it.
C19_Witness ==
    /\ impl = "redis"
    /\ opts.MaxConcurrent = 1 /\ opts.MinTime = 2
    /\ ReleasedBeforeExpiry
    /\ cPc[1] = "idle"
    /\ cPc[2] = "holding" /\ cLocal[2].id = call.id /\ cLocal[2].t = 3
    /\ call.op = "Request" /\ call.canRun /\ call.prevGrant = 1
    /\ Held(call.id) = 1

\* The call for slot j passed a weight above a positive MaxConcurrent.
Oversized(j) ==
    sub[j] # "idle" /\ lopts.MaxConcurrent > 0 /\ jWeight[j] > lopts.MaxConcurrent

RequestFailed(j) ==
    \/ sched.pc = "senderr" /\ sched.job = j
    \/ (Len(errorChan[j]) > 0 /\ Head(errorChan[j]) = "datastore error")
    \/ ret[j] = "datastore error"

\* C21: when Datastore.Request returns an error for the popped job, processJobs
\* sends the wrapped error on the job's error channel and returns to its loop;
\* the job is not pushed back, no worker is launched for it (so its work never
\* runs and RegisterDone is never called for it), and the jobs in the queue
\* stay there.
C21_RequestErrorDelivered ==
    /\ [][(sched.pc = "request" /\ sched'.pc = "senderr")
            => (queue' = queue /\ worker' = worker /\ errorChan' = errorChan)]_vars
    /\ [][(sched.pc = "senderr" /\ sched'.pc # "senderr")
            => /\ errorChan'[sched.job] = <<"datastore error">>
               /\ sched'.pc = "select"
               /\ queue' = queue
               /\ worker' = worker]_vars
    /\ [](\A j \in Jobs :
            RequestFailed(j) => /\ worker[j] = "none"
                                /\ sentResult[j] = 0
                                /\ j \notin Range(queue)
                                /\ sub[j] = "returned" => ret[j] = "datastore error")

\* A call returned the wrapped error of a failed Request; its job was never
\* launched, and the other job is still in the queue.
C21_Witness ==
    \E j, k \in Jobs :
        /\ sub[j] = "returned" /\ ret[j] = "datastore error"
        /\ sentError[j] = 1 /\ worker[j] = "none"
        /\ k # j /\ k \in Range(queue)

\* C22: Stop calls Datastore.Disconnect, and returns, only after every job
\* launched before it has finished its work and its RegisterDone was applied;
\* no RegisterDone of a granted job reaches a closed store. Stated for the
\* limiter's own store, which nobody but Stop disconnects.
C22_DisconnectAfterJobsComplete ==
    datastore = "own" =>
        /\ disconnects > 0 => \A j \in Jobs : worker[j] \in {"none", "done"}
        /\ (\E s \in Stoppers : stop[s] = "returned" /\ ~lateStop[s])
               => \A j \in Jobs : worker[j] \in {"none", "done"}
        /\ \A j \in Jobs : releaseErr[j] # "ErrStoreClosed"

\* C27: when a job's work returns, executeJob calls RegisterDone first and
\* delivers the outcome after it: whenever the outcome of a launched job has
\* been sent, and so whenever its call has returned, its RegisterDone has run.
C27_ReleasedBeforeDelivery ==
    \A j \in Jobs :
        /\ (worker[j] # "none" /\ sentResult[j] + sentError[j] > 0) => worker[j] = "done"
        /\ (worker[j] # "none" /\ sub[j] = "returned") => releaseErr[j] # "none"

\* The deferred RegisterDone of job j runs in this step.
ReleaseStep(j) == worker[j] = "finished" /\ worker'[j] = "done"

\* C28: an error returned by RegisterDone changes nothing of what the submitter
\* receives: the step of RegisterDone, failed or not, leaves both channels and
\* the call's result alone; a launched job's call returns the value or the
\* error of its work, whichever the work sent; and RegisterDone is called once
\* per job, with no retry after a failure.
C28_ReleaseErrorSwallowed ==
    /\ [][\A j \in Jobs :
            ReleaseStep(j) => UNCHANGED <<resultChan, errorChan, sub, ret, sentResult,
                                          sentError, fullSend>>]_vars
    /\ [][\A j \in Jobs :
            worker[j] = "done" => (worker'[j] = "done" /\ releaseErr'[j] = releaseErr[j])]_vars
    /\ [](\A j \in Jobs :
            (worker[j] # "none" /\ sub[j] = "returned")
                => /\ ret[j] \in {"value", "task error"}
                   /\ (ret[j] = "value") = (sentResult[j] = 1)
                   /\ (ret[j] = "task error") = (sentError[j] = 1)
                   /\ sentResult[j] + sentError[j] = 1)

\* The RegisterDone of a job failed on the closed store, and the job's call
\* returned the value of its work.
C28_Witness ==
    \E j \in Jobs :
        /\ releaseErr[j] = "ErrStoreClosed"
        /\ worker[j] = "done"
        /\ sub[j] = "returned" /\ ret[j] = "value"

\* C24: when the server no longer knows the admission script, Request on an
\* open RedisStore reloads it and retries: the call returns no error and
\* leaves the script in the server's cache.
C24_FlushedScriptReloaded ==
    [][(call' # call /\ call'.op = "Request" /\ impl = "redis" /\ rsClient = "open")
          => (call'.err = "nil" /\ rScripts')]_vars

\* What the two stores would answer to the same Request now.
SameAnswer(id, weight) ==
    LET l == LocalRequest(lsState, lsClosed, id, weight, opts, now)
        r == RedisRequest(rKeys, rScripts, rsClient, id, weight, opts, now)
    IN  l.canRun = r.canRun /\ l.waitTime = r.waitTime /\ l.err = r.err

\* C25: after the same sequence of Request and RegisterDone calls at the same
\* clock values, the LocalStore and the RedisStore hold the same running value
\* for every ID and return the same canRun and the same wait for every
\* Request (a wait_ms of -1 read as no wait).
C25_RemoteMatchesLocal ==
    \A id \in IDs :
        /\ lsState[id].running = RedisVisible(rKeys[id], now).running
        /\ \A w \in DirectWeights : SameAnswer(id, w)

\* C25 for the answers alone: also a Request is answered differently.
C25_SameAnswers ==
    \A id \in IDs, w \in DirectWeights : SameAnswer(id, w)

\* The running field of id as the server shows it now.
RemoteRunning(id) == RedisVisible(rKeys[id], now).running

\* C26 as stated: the over-count left by a failed RegisterDone is gone one key
\* expiry after the failure at the latest, whatever the other limiters do.
C26_OverCountGoneAfterExpiry ==
    \A id \in IDs :
        (leakAt[id] # 0 /\ now >= leakAt[id] + KeyTTL) => RemoteRunning(id) <= Held(id)

\* C26, amended: the over-count never exceeds the weight whose RegisterDone
\* failed, and it is gone one key expiry after the latest grant for the ID;
\* every grant in between keeps it alive.
C26_OverCountGoneAfterLastGrantExpires ==
    \A id \in IDs :
        /\ RemoteRunning(id) - Held(id) <= leaked[id]
        /\ (leakAt[id] # 0 /\ now >= lastGrant[id] + KeyTTL) => RemoteRunning(id) <= Held(id)

\* The RegisterDone of a weight granted at time 1 failed, no grant followed,
\* and at time 3 the key with its over-count has expired.
C26_Witness ==
    \E id \in IDs :
        /\ leakAt[id] = 1 /\ leaked[id] = 1 /\ lastGrant[id] = 1
        /\ now = 1 + KeyTTL
        /\ rKeys[id].running = 1
        /\ RemoteRunning(id) = 0
        /\ Held(id) = 0

\* Items a and b were granted one right after the other, a first.
Consecutive(a, b) ==
    \E n \in 1..(Len(pqGrants) - 1) : pqGrants[n] = a /\ pqGrants[n + 1] = b

Holds(g) == mu.w = g \/ g \in mu.r

\* C29: no goroutine holds Limiter.mu, in read or in write mode, while it is
\* inside Datastore.Request, Datastore.RegisterDone, Datastore.Disconnect, a
\* wait-sleep or a job's work function (nor in wg.Wait); the mutex is held
\* only from a Lock or RLock to the Unlock or RUnlock that follows the flag
\* read, the flag write or the heap operation.
C29_MutexNotHeldAcrossCalls ==
    /\ mDisp.pc \in {"request", "sleep"} => ~Holds(Dispatcher)
    /\ \A s \in Stoppers : mStop[s] \in {"wait", "disconnect"} => ~Holds(Stopper(s))
    /\ \A j \in Jobs : ~Holds(Worker(j))
    /\ Holds(Dispatcher)
           <=> mDisp.pc \in {"rlocked", "popping", "repushing", "drlocked", "drpopping"}
    /\ \A j \in Jobs : Holds(Submitter(j)) <=> mSub[j] \in {"locked", "pushing"}
    /\ \A s \in Stoppers : Holds(Stopper(s)) <=> mStop[s] = "locked"

\* The dispatcher sleeps after a spacing denial and a job's work is running
\* while a Stop holds the mutex.
C29_Witness ==
    /\ mDisp.pc = "sleep"
    /\ \E j \in Jobs : mWork[j] = "executing"
    /\ \E s \in Stoppers : mStop[s] = "locked" /\ mu.w = Stopper(s)

\* The goroutines inside a heap operation of Limiter.queue.
QueueOps ==
    {Submitter(j) : j \in {k \in Jobs : mSub[k] = "pushing"}}
        \cup (IF mDisp.pc \in {"popping", "repushing", "drpopping"} THEN {Dispatcher} ELSE {})

\* C30: at most one goroutine is inside an operation of the priority queue at
\* any time (a submitter's push, the dispatcher's pop and re-push, the
\* drain's pop), each of them holding Limiter.mu, with submitters and Stop
\* running at the same time.
C30_QueueOpsSerialized ==
    /\ Cardinality(QueueOps) <= 1
    /\ \A g \in QueueOps : Holds(g)

\* A submitter is inside its push, holding the mutex, while the dispatcher
\* waits for it to push a denied job back.
C30_Witness ==
    /\ mDisp.pc = "wantlock"
    /\ mDisp.job \notin Range(queue)
    /\ \E j \in Jobs : mSub[j] = "pushing" /\ mu.w = Submitter(j)

\* C31: every mutation of the priority queue (a submitter's push, the
\* dispatcher's pop and re-push, the drain's pop) is made by a goroutine that
\* holds Limiter.mu in write mode; none is made under the read lock alone.
C31_QueueMutatedUnderWriteLock ==
    \A g \in QueueOps : mu.w = g

\* C32: a Request that is denied, for concurrency or for spacing, leaves
\* running and lastStart of its ID as they were and leaves every other ID
\* alone, in the LocalStore and on the server of the RedisStore; there the
\* expiry of the key is left as it was too, and no key appears.
C32_DenialChangesNothing ==
    [][(DirectStep("Request") /\ call'.err = "nil" /\ ~call'.canRun)
          => /\ \A id \in IDs :
                   /\ lsState'[id].running = lsState[id].running
                   /\ lsState'[id].lastStart = lsState[id].lastStart
                   /\ RedisVisible(rKeys'[id], now) = RedisVisible(rKeys[id], now)
             /\ UNCHANGED <<lastGrant, lsClosed, rsClient>>]_vars

\* A Request on the RedisStore was denied for spacing one tick after a grant
\* for the same ID, whose expiry is still the one that grant set, while the
\* other ID holds a weight of its own.
C32_Witness ==
    /\ impl = "redis"
    /\ call.op = "Request" /\ call.at = now /\ ~call.canRun /\ call.waitTime > 0
    /\ rKeys[call.id].running = 1
    /\ rKeys[call.id].expireAt = lastGrant[call.id] + KeyTTL
    /\ now = lastGrant[call.id] + 1
    /\ \E id \in IDs : id # call.id /\ rKeys[id].running = 2

\* Item i waits for admission: it is in the queue or in the dispatcher's hands.
Pending(i) == pqPhase[i] \in {"queued", "popped"}

\* Item i was granted.
Granted(i) == pqPhase[i] \in {"executing", "done"}

\* The weight of item i can be admitted when nothing else runs.
Fits(i) == lopts.MaxConcurrent = 0 \/ pqWeight[i] <= lopts.MaxConcurrent

\* The weight of item i is above a positive MaxConcurrent.
TooHeavy(i) == lopts.MaxConcurrent > 0 /\ pqWeight[i] > lopts.MaxConcurrent

\* The dispatcher pushes the denied job back.
RepushStep == pqSched.pc = "repush" /\ pqSched'.pc # "repush"

ConcurrencyPasses(id, w) ==
    IF impl = "local"
    THEN ~ConcurrencyDenied(lsState[id], w, opts)
    ELSE ~OverLimit(RedisVisible(rKeys[id], now).running, w, opts.MaxConcurrent)

\* A Request for id with weight w issued now would be granted.
WouldGrant(id, w) ==
    IF impl = "local"
    THEN LocalRequest(lsState, lsClosed, id, w, opts, now).canRun
    ELSE RedisRequest(rKeys, rScripts, rsClient, id, w, opts, now).canRun

\* C34: the wait returned by a spacing denial is strictly positive and ends
\* exactly MinTime after the latest grant for the ID; and a Request for the
\* ID issued at or after that instant, with no grant in between and with the
\* concurrency check passing, is granted, on the LocalStore and on the
\* RedisStore.
C34_SpacingWaitSufficient ==
    /\ [][(DirectStep("Request") /\ call'.err = "nil" /\ ~call'.canRun
             /\ ConcurrencyPasses(call'.id, call'.weight))
            => /\ call'.waitTime > 0
               /\ lastGrant[call'.id] # 0
               /\ now + call'.waitTime = lastGrant[call'.id] + opts.MinTime]_vars
    /\ [](\A id \in IDs, w \in DirectWeights :
            (/\ ~Disconnected
             /\ lastGrant[id] # 0
             /\ now >= lastGrant[id] + opts.MinTime
             /\ ConcurrencyPasses(id, w)) => WouldGrant(id, w))
    /\ []((/\ call.op = "Request" /\ call.err = "nil" /\ ~call.canRun /\ call.waitTime > 0
           /\ ~Disconnected
           /\ now >= call.at + call.waitTime
           /\ ConcurrencyPasses(call.id, call.weight)) => WouldGrant(call.id, call.weight))

\* Under MinTime = 2 a Request was denied for spacing with a wait of one tick;
\* one tick later nothing was granted in between and the same Request would
\* be granted.
C34_Witness ==
    /\ opts.MinTime = 2
    /\ call.op = "Request" /\ ~call.canRun /\ call.waitTime = 1
    /\ lastGrant[call.id] = call.at - 1
    /\ now = call.at + call.waitTime
    /\ WouldGrant(call.id, call.weight)

\* The dispatcher pops a job for this tick.
PopStep == pqSched.pc = "select" /\ pqSched'.pc = "request"

\* The Request for item i is granted in this step.
GrantStep(i) == ~Granted(i) /\ Granted(i)'

\* C35: on each tick the dispatcher pops, and requests admission for, only a
\* queued job of the highest priority; so while a job that was denied is
\* still waiting, no job of strictly lower priority is granted, whatever its
\* weight; a job with weight > MaxConcurrent is never granted and, from its
\* first denial on, keeps every job of lower priority from being popped.
C35_HeadOfLineBlocking ==
    /\ [][PopStep => \A k \in Range(pq) : pqPriority[pqSched'.job] >= pqPriority[k]]_vars
    /\ [][\A i \in WeightedItems :
            GrantStep(i) => /\ pqSched.pc = "request" /\ pqSched.job = i
                            /\ \A k \in pqDenied \ {i} :
                                   Pending(k) => pqPriority[k] <= pqPriority[i]]_vars
    /\ [][\A k \in pqDenied :
            (Pending(k) /\ PopStep /\ pqSched'.job # k)
                => (k \in Range(pq) /\ pqPriority[pqSched'.job] >= pqPriority[k])]_vars
    /\ [](\A k \in WeightedItems : TooHeavy(k) => ~Granted(k))

\* Under MaxConcurrent = 1 a job of priority 5 and weight 2 was denied and
\* waits; a job of priority 1 and weight 1 is in the queue, never requested,
\* although nothing is running and the clock has run out.
C35_Witness ==
    /\ lopts.MaxConcurrent = 1
    /\ lsState[lopts.ID].running = 0
    /\ now = MaxTime
    /\ pqSched.pc = "select"
    /\ \E k, i \in WeightedItems :
        /\ k \in pqDenied /\ Pending(k) /\ pqPriority[k] = 5 /\ pqWeight[k] = 2
        /\ i \notin pqDenied /\ pqPhase[i] = "queued" /\ pqPriority[i] = 1 /\ pqWeight[i] = 1
        /\ pqGrants = <<>>

\* The jobs that were granted and whose RegisterDone has not been applied.
Unreleased == {j \in Jobs : worker[j] \in {"launched", "executing", "finished"}}

\* C36: while the LocalStore of a limiter that is its only user is open, the
\* store's running value for the limiter's ID is the sum of the weights of
\* the jobs that were granted and whose RegisterDone has not been applied
\* yet, the jobs whose outcome was already delivered included; every other
\* ID stays at zero.
C36_RunningIsUnreleasedWeight ==
    (lim = "ok" /\ ~lsClosed)
        => /\ lsState[lopts.ID].running = SumWeights(Unreleased)
           /\ \A id \in IDs \ {lopts.ID} : lsState[id].running = 0

\* Without a cap, the call of a job of weight 2 has returned its value while
\* its RegisterDone is still to run, and a job of weight 1 is executing:
\* running is 3.
C36_Witness ==
    /\ ~lsClosed
    /\ \E j, k \in Jobs :
        /\ worker[j] = "finished" /\ sub[j] = "returned" /\ ret[j] = "value" /\ jWeight[j] = 2
        /\ worker[k] = "executing" /\ jWeight[k] = 1
    /\ lsState[lopts.ID].running = 3

\* The steps of an executeJob goroutine, in their order.
WorkerSteps ==
    {<<"none", "launched">>, <<"launched", "executing">>, <<"executing", "finished">>,
     <<"finished", "done">>}

\* C37: for every job the work function is entered at most once and
\* RegisterDone is called exactly once per grant, with the weight the grant
\* was given, after a success and after an error of the work alike; it is
\* never called for a job that was denied, failed by a backend error or
\* drained at Stop.
C37_OneRunOneReleasePerGrant ==
    /\ [][\A j \in Jobs :
            /\ worker'[j] # worker[j] => <<worker[j], worker'[j]>> \in WorkerSteps
            /\ worker[j] # "none" => jWeight'[j] = jWeight[j]
            /\ (worker[j] = "none" /\ worker'[j] # "none")
                   => /\ sched.pc = "request" /\ sched.job = j
                      /\ ~lsClosed
                      /\ lsState'[lopts.ID].running = lsState[lopts.ID].running + jWeight[j]
            /\ (ReleaseStep(j) /\ ~lsClosed)
                   => lsState'[lopts.ID].running = lsState[lopts.ID].running - jWeight[j]]_vars
    /\ [](\A j \in Jobs :
            /\ (j \in Range(queue) \/ (sched.job = j /\ sched.pc \in {"request", "repush"})
                  \/ RequestFailed(j) \/ j \in atStop)
                   => worker[j] = "none"
            /\ worker[j] \in {"finished", "done"} => sentResult[j] + sentError[j] = 1)
    /\ \A j \in Jobs : (worker[j] # "none") ~> (worker[j] = "done")

\* Both jobs were granted and released: the work of one returned a value, the
\* work of the other an error, and nothing is left running.
C37_Witness ==
    /\ ~lsClosed
    /\ \E j, k \in Jobs :
        /\ worker[j] = "done" /\ ret[j] = "value"
        /\ worker[k] = "done" /\ ret[k] = "task error"
        /\ jWeight[j] + jWeight[k] = 3
    /\ lsState[lopts.ID].running = 0

\* C38: a job that was granted is never failed with ErrStoreClosed, nor with
\* the error of a Request: its channels carry nothing but the one outcome of
\* its work, no send is dropped, it is not among the drained jobs, and its
\* call returns the work's value or the work's error, also when Stop has
\* returned and the store was disconnected before the work ended.
C38_GrantedJobGetsItsOutcome ==
    /\ ~fullSend
    /\ \A j \in Jobs :
        worker[j] # "none"
            => /\ j \notin atStop
               /\ resultChan[j] \in {<<>>, <<"value">>}
               /\ errorChan[j] \in {<<>>, <<"task error">>}
               /\ ret[j] \in {"none", "value", "task error"}
               /\ sub[j] = "returned" <=> ret[j] # "none"
               /\ worker[j] \in {"finished", "done"}
                      => \/ resultChan[j] = <<"value">> \/ errorChan[j] = <<"task error">>
                         \/ ret[j] \in {"value", "task error"}

\* Stop on the limiter's own store has returned while a granted job was
\* still at work: the job's RegisterDone found the store closed, and its
\* call returned the error of its work; the other job was drained.
C38_Witness ==
    /\ datastore = "own"
    /\ \E s \in Stoppers : stop[s] = "returned" /\ ~lateStop[s]
    /\ \E j, k \in Jobs :
        /\ worker[j] = "done" /\ releaseErr[j] = "ErrStoreClosed"
        /\ sub[j] = "returned" /\ ret[j] = "task error"
        /\ k \in atStop /\ ret[k] = "ErrStoreClosed"

(***************************************************************************)
(* Goroutines on one RedisStore, which has no mutex: processJobs in        *)
(* Request, executeJob in its deferred RegisterDone, and Stop in           *)
(* Disconnect. Each read and each write of rs.client is a step of its own, *)
(* so the nil check of a call and the use of the client that follows it    *)
(* are separated by whatever the other goroutine does in between. A read   *)
(* that races with the write of Disconnect returns the old or the new      *)
(* pointer, which is the order in which the two steps are taken here.      *)
(* rsClient is "open", "cancelled" once rs.ctx is cancelled, "closed" once *)
(* Close has run, and "nil". The goroutines are those of one limiter, so   *)
(* every call carries its ID.                                              *)
(***************************************************************************)
raceFrame == <<extVars, queueVars, limiterVars, jobVars, stop, storeVars, now, call, histVars,
               lsMu, impl, keyLost>>

\* The names of the two calls a goroutine makes on the store.
RaceOps == {"inRequest", "inRegisterDone"}

\* Request and RegisterDone up to their first statement: if rs.client == nil
\* { return ErrStoreClosed }.
RaceNilCheck(c, op, id, weight) ==
    /\ cPc[c] = "idle"
    /\ IF op = "inRequest"
       THEN RedisVisible(rKeys[id], now).running + weight <= MaxRunning
       ELSE RedisVisible(rKeys[id], now).running - weight >= -MaxRunning
    /\ cLocal' = [cLocal EXCEPT ![c] =
                    [NoCallerLocal EXCEPT !.id = id, !.weight = weight, !.t = now,
                                          !.err = IF ClientIsNil(rsClient)
                                                  THEN "ErrStoreClosed" ELSE "nil"]]
    /\ cPc' = [cPc EXCEPT ![c] = IF ClientIsNil(rsClient) THEN "returned" ELSE op]
    /\ UNCHANGED <<raceFrame, rsClient, rKeys>>

\* rs.client.EvalSha(rs.ctx, ...) of Request and rs.client.HIncrBy(rs.ctx, ...)
\* of RegisterDone: the second read of rs.client and the call through it. A
\* nil pointer panics, a client whose context is cancelled or that is closed
\* answers with an error that the method wraps, an open one runs the command.
RaceUseClient(c) ==
    /\ cPc[c] \in RaceOps
    /\ LET id == cLocal[c].id
           w == cLocal[c].weight
       IN  CASE rsClient = "nil" ->
                    /\ cPc' = [cPc EXCEPT ![c] = "panicked"]
                    /\ cLocal' = [cLocal EXCEPT ![c].err = "nil pointer dereference"]
                    /\ UNCHANGED rKeys
             [] rsClient \in {"cancelled", "closed"} ->
                    /\ cPc' = [cPc EXCEPT ![c] = "returned"]
                    /\ cLocal' = [cLocal EXCEPT ![c].err =
                                    IF cPc[c] = "inRequest" THEN "redis eval error"
                                    ELSE "redis hincrby error"]
                    /\ UNCHANGED rKeys
             [] rsClient = "open" /\ cPc[c] = "inRequest" ->
                    LET r == RedisRequest(rKeys, rScripts, rsClient, id, w, opts, now)
                    IN  /\ rKeys' = r.keys
                        /\ cPc' = [cPc EXCEPT ![c] = "returned"]
                        /\ cLocal' = [cLocal EXCEPT ![c].canRun = r.canRun,
                                                    ![c].waitTime = r.waitTime,
                                                    ![c].err = r.err]
             [] rsClient = "open" /\ cPc[c] = "inRegisterDone" ->
                    LET r == RedisRegisterDone(rKeys, rsClient, id, w, now)
                    IN  /\ rKeys' = r.keys
                        /\ cPc' = [cPc EXCEPT ![c] = "returned"]
                        /\ cLocal' = [cLocal EXCEPT ![c].err = r.err]
    /\ UNCHANGED <<raceFrame, rsClient>>

\* Disconnect: rs.cancelFunc().
RaceDisconnectCancel(c) ==
    /\ cPc[c] = "idle"
    /\ cPc' = [cPc EXCEPT ![c] = "cancelled"]
    /\ cLocal' = [cLocal EXCEPT ![c] = NoCallerLocal]
    /\ rsClient' = IF rsClient = "open" THEN "cancelled" ELSE rsClient
    /\ UNCHANGED <<raceFrame, rKeys>>

\* Disconnect: if rs.client != nil { err := rs.client.Close() ...
RaceDisconnectClose(c) ==
    /\ cPc[c] = "cancelled"
    /\ cPc' = [cPc EXCEPT ![c] = IF ClientIsNil(rsClient) THEN "returned" ELSE "closing"]
    /\ rsClient' = IF ClientIsNil(rsClient) THEN rsClient ELSE "closed"
    /\ UNCHANGED <<raceFrame, cLocal, rKeys>>

\* Disconnect: ... rs.client = nil; return err }
RaceDisconnectNil(c) ==
    /\ cPc[c] = "closing"
    /\ cPc' = [cPc EXCEPT ![c] = "returned"]
    /\ rsClient' = "nil"
    /\ UNCHANGED <<raceFrame, cLocal, rKeys>>

\* The call has returned to its goroutine, which goes on to its next call.
RaceReturn(c) ==
    /\ cPc[c] = "returned"
    /\ cPc' = [cPc EXCEPT ![c] = "idle"]
    /\ cLocal' = [cLocal EXCEPT ![c] = NoCallerLocal]
    /\ UNCHANGED <<raceFrame, rsClient, rKeys>>

RaceNext ==
    \/ \E c \in Callers, op \in RaceOps, w \in DirectWeights :
            RaceNilCheck(c, op, opts.ID, w)
    \/ \E c \in Callers : RaceUseClient(c)
    \/ \E c \in Callers : RaceDisconnectCancel(c)
    \/ \E c \in Callers : RaceDisconnectClose(c)
    \/ \E c \in Callers : RaceDisconnectNil(c)
    \/ \E c \in Callers : RaceReturn(c)
    \/ ClockTick

RaceInit == ClientsInit /\ impl = "redis"

SpecRace == RaceInit /\ [][RaceNext]_vars

\* C39: a Request or a RegisterDone that runs while Disconnect runs never
\* uses a nil client after its nil check has passed; it either completes
\* against the client or returns ErrStoreClosed.
C39_CallCompletesOrStoreClosed ==
    \A c \in Callers :
        /\ cPc[c] # "panicked"
        /\ cLocal[c].err \in {"nil", "ErrStoreClosed"}

\* The part of C39 about the nil client alone: no call reads a nil rs.client
\* after its own nil check has passed.
C39_NoNilClientUse == \A c \in Callers : cPc[c] # "panicked"

\* C40: a limiter built on a Datastore that another limiter shares keeps
\* running when the other one's Stop has disconnected the store (Stop
\* disconnects whatever store its limiter holds), and from then on every job
\* it pops fails: the Request returns ErrStoreClosed, the wrapped error goes
\* to the job's error channel, the scheduler returns to its select for the
\* next tick, no worker is launched, and no job is granted any more.
C40_SharedStoreClosedForBoth ==
    /\ [](disconnects > 0 => lsClosed)
    /\ [][(datastore = "supplied" /\ lsClosed /\ sched.pc = "request" /\ sched'.pc # "request")
            => (sched'.pc = "senderr" /\ worker' = worker /\ queue' = queue)]_vars
    /\ [][(datastore = "supplied" /\ lsClosed /\ sched.pc = "senderr" /\ sched'.pc # "senderr")
            => /\ errorChan'[sched.job] = <<"datastore error">>
               /\ sched'.pc = "select" /\ sched'.job = 0]_vars
    /\ [][(datastore = "supplied" /\ lsClosed)
            => \A j \in Jobs : worker[j] = "none" => worker'[j] = "none"]_vars

\* The other limiter's Stop has disconnected the shared store while this
\* limiter runs with no Stop of its own: both of its jobs were popped on
\* ticks after that, neither was executed, and both calls returned the
\* wrapped error.
C40_Witness ==
    /\ datastore = "supplied" /\ lsClosed /\ running
    /\ \A s \in Stoppers : stop[s] = "idle"
    /\ \E j, k \in Jobs :
        /\ j # k
        /\ sub[j] = "returned" /\ ret[j] = "datastore error" /\ worker[j] = "none"
        /\ sub[k] = "returned" /\ ret[k] = "datastore error" /\ worker[k] = "none"

====
